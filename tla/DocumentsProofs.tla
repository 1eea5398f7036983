---------------------------- MODULE DocumentsProofs ----------------------------
(* Proofs about the document that is open, for any photos and projects and any *)
(* number of openings, saves, ejects, cancels, edits and failures, however     *)
(* they overtake each other: early edits are kept, the page shows a session    *)
(* that lives, and what is installed was asked for last.                       *)
EXTENDS Documents, TLAPS

-----------------------------------------------------------------------------
(* Types. Sets of edits and numbers are bounded further below.                *)

Docs == Photos \cup Projects
Opens == {"photo", "project", "eject"}
Content0 == [doc: Docs, edits: SUBSET Nat]
Tokens == {<<>>} \cup (Nat \X (SUBSET Nat) \X BOOLEAN)
Servers == {None, "sent", "read", "holding", "activated", "shown", "relink", "bad", "cleared late"}

\* ("new" is the operation of a user action before it has decided where to begin.)
PCs == Waiting \cup Working \cup {"done", "new"}
PageRecord ==
  [session: Nat, doc: Docs \cup {None}, edits: SUBSET Nat, dirty: BOOLEAN,
   path: Projects \cup {None}, grade: BOOLEAN, importGeneration: Nat,
   projectOpenGeneration: Nat, activeImportJobId: Nat, importInProgress: BOOLEAN,
   gradeOpen: Nat, openDisabled: BOOLEAN]
OpRecord ==
  [kind: Kinds, target: Docs \cup {None}, pc: PCs, gen: Nat, pgen: Nat, job: Nat,
   session: Nat, token: Tokens, again: BOOLEAN, server: Servers, read: Content0 \cup {None},
   parent: Nat, shown: Docs \cup {None}, saveAs: BOOLEAN, relinked: BOOLEAN]
StoreRecord == [session: Nat, doc: Docs \cup {None}, edits: SUBSET Nat, holder: Nat]
JobRecord == [doc: Photos, state: {"running", "ready", "error", "cancelled"}, session: Nat]

-----------------------------------------------------------------------------
(* What holds of one operation, wherever it is.                               *)

Asked == {"new", "confirm", "leaving", "saving", "choosing"}
Loading == {"cancelling", "preparing", "creating", "created", "refused", "polling", "fetching", "attaching"}
Begun == {"starting", "opening", "relinking"}
Saves == {"flushing", "path", "granting", "writing", "written", "unsaved"}
HasJob == {"created", "dropping", "polling", "fetching", "attaching"}

Shape(o) ==
  /\ o.pc \in Asked => o.kind \in Opens /\ o.gen = 0 /\ o.job = 0
  /\ o.pc = "choosing" => o.kind = "project" /\ o.token # <<>>
  /\ o.pc \in Loading \cup {"dropping"} => o.gen # 0
  /\ o.pc \in (Loading \cup {"dropping"}) \ {"cancelling"} => o.kind = "photo"
  /\ o.pc = "cancelling" => o.kind # "save" /\ o.job # 0
  /\ o.pc \in HasJob => o.job # 0
  /\ o.pc \in {"preparing", "creating"} => o.job = 0
  /\ o.pc \in Begun => o.kind = "project" /\ o.gen # 0 /\ o.pgen # 0
  /\ o.pc = "clearing" => o.kind = "eject" /\ o.gen # 0
  /\ o.pc \in Saves => o.kind = "save"
  /\ o.pc \in {"writing", "written"} => o.session # 0
  /\ o.pc = "showing" => o.kind \in {"photo", "project"} /\ o.gen # 0
  /\ o.pgen # 0 => o.kind = "project" /\ o.gen # 0 /\ o.pc \in Begun \cup {"showing", "done"}

\* Where the request of a project open may be, and what it carries.
Serving(o) ==
  /\ o.server \in Servers \ {None, "cleared late"} => o.kind = "project" /\ o.pgen # 0
  /\ o.server = "cleared late" => o.kind = "eject" /\ o.pc = "done"
  /\ o.pc = "starting" => o.server = None
  /\ o.pc = "relinking" => o.server = "relink"
  /\ o.pc = "showing" => o.kind # "project" \/ o.server = "shown"
  /\ o.server \in {"read", "holding", "activated"} => o.read \in Content0
  /\ o.kind = "save" => o.gen = 0 /\ o.target \in Projects \cup {None}
  /\ o.kind = "photo" => o.target \in Photos
  /\ o.kind = "project" => o.target \in Projects

Shapes(os) == \A i \in DOMAIN os : Shape(os[i]) /\ Serving(os[i])

\* A transition that saves first waits for exactly one save.
Waits(o) == o.kind = "save" /\ o.pc # "done"
Parents(os) ==
  \A i \in DOMAIN os : Waits(os[i]) /\ os[i].parent # 0 =>
    /\ os[i].parent \in DOMAIN os /\ os[os[i].parent].pc = "saving"
    /\ \A k \in DOMAIN os : k # i /\ Waits(os[k]) => os[k].parent # os[i].parent

-----------------------------------------------------------------------------
(* How the openings overtake each other.                                      *)

\* No two operations claim the page with the same generation.
Gens(pg, os) ==
  /\ \A i \in DOMAIN os : os[i].gen <= pg.importGeneration /\ os[i].pgen <= pg.projectOpenGeneration
  /\ \A i, k \in DOMAIN os : i # k /\ os[i].gen # 0 => os[i].gen # os[k].gen
  /\ \A i, k \in DOMAIN os : i # k /\ os[i].pgen # 0 => os[i].pgen # os[k].pgen

\* A project open that is not aborted is newer than everything but a cancel.
Newest(pg, os) ==
  \A i \in DOMAIN os : os[i].pgen # 0 /\ os[i].pgen = pg.projectOpenGeneration =>
     \A k \in DOMAIN os : k # i /\ os[k].kind # "cancel" => os[k].gen < os[i].gen

\* The job that the page knows belongs to the newest request, which shows nothing yet.
LoadsPhoto(pg, o) == o.kind = "photo" /\ o.pc \in Loading /\ o.gen = pg.importGeneration
ActiveJob(pg, os) ==
  /\ pg.activeImportJobId # 0 => \E i \in DOMAIN os : LoadsPhoto(pg, os[i]) /\ os[i].pc # "attaching"
  /\ \A i \in DOMAIN os : LoadsPhoto(pg, os[i]) /\ os[i].pc \in {"polling", "fetching"}
                            => os[i].job = pg.activeImportJobId
  /\ \A i \in DOMAIN os : os[i].pc = "dropping" => os[i].gen # pg.importGeneration
  /\ \A i \in DOMAIN os : LoadsPhoto(pg, os[i]) => pg.session = 0

\* A job that runs is that of a photo that waits for it, or that was overtaken.
Launched == HasJob \cup {"showing", "done"}
Launches(pg, o, j) ==
  /\ o.kind = "photo" /\ o.job = j /\ o.pc \in Launched
  /\ o.gen = pg.importGeneration => o.pc \in {"created", "polling"}
Running(pg, os, js) ==
  \A j \in DOMAIN js : js[j].state = "running" => \E i \in DOMAIN os : Launches(pg, os[i], j)

-----------------------------------------------------------------------------
(* PageIsLive, and why the answer to a project open keeps it.                 *)

HoldsIn(pg, o, st, js) ==
  \/ o.server = "activated" /\ st.session = o.session
  \/ o.server = "cleared late" /\ st.session = 0
  \/ /\ o.kind = "photo" /\ Stale(pg, o) /\ o.job # 0
     /\ o.job \in DOMAIN js /\ js[o.job].state = "ready" /\ st.session = js[o.job].session

InBackend == {"sent", "read", "holding", "activated"}
Shown(pg, os, st, js) ==
  pg.session \in {0, st.session} \/ \E i \in DOMAIN os : HoldsIn(pg, os[i], st, js)
Answers(pg, os, st, js) ==
  \A i \in DOMAIN os : ~Aborted(pg, os[i]) /\ os[i].pgen # 0 =>
    /\ os[i].server \in InBackend => os[i].pc = "opening"
    /\ os[i].server = "activated" =>
         \/ os[i].session = st.session
         \/ \E k \in DOMAIN os : k # i /\ HoldsIn(pg, os[k], st, js)

-----------------------------------------------------------------------------
(* EarlyEditsKept: unsaved early edits are on the page, and no transition is   *)
(* past its question while there are some.                                     *)

Past == (Loading \cup Begun) \cup {"leaving", "dropping", "clearing", "written"}
Unsaved == early \ settled

MayWait(pg, o, st, U) ==
  /\ o.pc \notin Past
  /\ o.pc = "showing" => o.kind # "photo" \/ Stale(pg, o)
  /\ o.pc \in {"confirm", "writing"} => o.session = pg.session
  /\ o.pc = "choosing" => U \cap o.token[2] = {}
  /\ o.pc \in {"path", "granting", "writing"} /\ st.session = pg.session => U \subseteq st.edits
Early(pg, os, st, U) ==
  U # {} => /\ U \subseteq pg.edits /\ pg.dirty /\ pg.session # 0 /\ ~pg.grade /\ pg.gradeOpen = 0
            /\ \A i \in DOMAIN os : MayWait(pg, os[i], st, U)

-----------------------------------------------------------------------------
(* What there is so far: no one knows a session, an edit or a job to come.     *)

OpFits(o, s, m, n) ==
  /\ o.session <= s /\ o.job <= n
  /\ o.token # <<>> => o.token[2] \subseteq 1..m
  /\ o.server \in {"read", "holding", "activated"} => o.read.edits \subseteq 1..m
PageFits(pg, s, m, n) ==
  /\ pg.session <= s /\ pg.edits \subseteq 1..m /\ pg.activeImportJobId <= n
  /\ pg.gradeOpen <= pg.importGeneration
StoreFits(st, s, m, n) ==
  /\ st.session <= s /\ st.edits \subseteq 1..m /\ st.holder <= n
  /\ st.session # 0 => st.doc \in Docs
\* What the claims of the page keep, whatever the backend does.
Claims(pg, os) == Shapes(os) /\ Parents(os) /\ Gens(pg, os) /\ Newest(pg, os) /\ ActiveJob(pg, os)

\* The page and its operations, for a backend with the session st and the jobs js.
Good(pg, os, st, js, s, m) ==
  /\ pg \in PageRecord /\ PageFits(pg, s, m, Len(js))
  /\ os \in Seq(OpRecord) /\ \A i \in DOMAIN os : OpFits(os[i], s, m, Len(js))
  /\ Claims(pg, os) /\ Running(pg, os, js) /\ Shown(pg, os, st, js) /\ Answers(pg, os, st, js)

\* The backend, and what the user may still do.
Backend ==
  /\ store \in StoreRecord /\ StoreFits(store, sessions, made, Len(ops))
  /\ jobs \in Seq(JobRecord) /\ \A j \in DOMAIN jobs : jobs[j].session <= sessions
  /\ files \in [Projects -> Content0] /\ \A p \in Projects : files[p].edits \subseteq 1..made
  /\ left \in Budget /\ sessions \in Nat /\ made \in Nat
  /\ early \subseteq 1..made /\ settled \subseteq 1..made

DocumentInv ==
  /\ Backend /\ Good(page, ops, store, jobs, sessions, made)
  /\ \A i \in Ops : ops[i].pc # "new"
  /\ Early(page, ops, store, Unsaved)

-----------------------------------------------------------------------------
(* The proofs.                                                                *)

\* What a step of one operation leaves alone in it, and in the others.
SameOp(o, x) ==
  /\ x.kind = o.kind /\ x.target = o.target /\ x.parent = o.parent /\ x.session = o.session
  /\ x.server = o.server /\ x.read = o.read /\ x.pc # "new"
OnlyOp(os, out, i) ==
  /\ out \in Seq(OpRecord) /\ DOMAIN out = DOMAIN os /\ Len(out) = Len(os)
  /\ \A k \in DOMAIN os : k # i => out[k] = os[k]

\* What a transition does once its questions are answered: it goes on to the
\* file dialog, or claims the page for a photo, a project or nothing.
Chooses(pg, q, o, x) ==
  /\ o.kind = "project" /\ q = pg
  /\ x.pc = "choosing" /\ x.token = <<pg.session, pg.edits, pg.dirty>>
  /\ x.gen = o.gen /\ x.pgen = o.pgen /\ x.job = o.job
ClaimsPage(pg, q, o, x) ==
  /\ q.importGeneration = pg.importGeneration + 1 /\ x.gen = q.importGeneration
  /\ x.token = o.token /\ x.job = pg.activeImportJobId
ClaimsPhoto(pg, q, o, x) ==
  /\ o.kind = "photo" /\ ClaimsPage(pg, q, o, x) /\ x.pgen = o.pgen
  /\ q.projectOpenGeneration = pg.projectOpenGeneration + 1
  /\ q.session = 0 /\ q.edits = {} /\ q.activeImportJobId = pg.activeImportJobId
  /\ q.gradeOpen = q.importGeneration
  /\ x.pc = IF pg.activeImportJobId # 0 THEN "cancelling" ELSE "preparing"
SamePage(pg, q) ==
  /\ q.session = pg.session /\ q.edits = pg.edits /\ q.dirty = pg.dirty /\ q.grade = pg.grade
  /\ q.gradeOpen = pg.gradeOpen
ClaimsEject(pg, q, o, x) ==
  /\ o.kind = "eject" /\ ClaimsPage(pg, q, o, x) /\ x.pgen = o.pgen
  /\ q.projectOpenGeneration = pg.projectOpenGeneration + 1
  /\ SamePage(pg, q) /\ q.activeImportJobId = 0
  /\ x.pc = IF pg.activeImportJobId # 0 THEN "cancelling" ELSE "clearing"
Begins(pg, q, o, x) ==
  /\ q.projectOpenGeneration = pg.projectOpenGeneration + 1
  /\ x.pgen = q.projectOpenGeneration /\ x.pc = "starting"
ClaimsProject(pg, q, o, x) ==
  /\ o.kind = "project" /\ ClaimsPage(pg, q, o, x)
  /\ SamePage(pg, q) /\ q.activeImportJobId = 0
  /\ IF pg.activeImportJobId = 0 THEN Begins(pg, q, o, x)
     ELSE /\ q.projectOpenGeneration = pg.projectOpenGeneration
          /\ x.pgen = o.pgen /\ x.pc = "cancelling"
Outcome(pg, q, o, x) ==
  \/ Chooses(pg, q, o, x) \/ ClaimsPhoto(pg, q, o, x) \/ ClaimsEject(pg, q, o, x)
  \/ ClaimsProject(pg, q, o, x)

LEMMA ClaimProjectOutcome ==
  ASSUME NEW pg \in PageRecord, NEW os \in Seq(OpRecord), NEW i \in DOMAIN os, os[i].kind = "project"
  PROVE LET r == ClaimProject(pg, os, i) IN
        /\ r.page \in PageRecord /\ OnlyOp(os, r.ops, i) /\ SameOp(os[i], r.ops[i])
        /\ ClaimsProject(pg, r.page, os[i], r.ops[i])
<1> DEFINE r == ClaimProject(pg, os, i)
<1> DEFINE g == pg.importGeneration + 1
<1> DEFINE h == pg.projectOpenGeneration + 1
<1> DEFINE claimed == [pg EXCEPT !.importGeneration = @ + 1, !.activeImportJobId = 0]
<1> DEFINE taken == [os EXCEPT ![i].gen = claimed.importGeneration,
                               ![i].job = pg.activeImportJobId, ![i].pc = "cancelling"]
<1>1. g \in Nat /\ h \in Nat /\ pg.activeImportJobId \in Nat /\ os[i] \in OpRecord
  BY DEF PageRecord
<1>2. claimed = [pg EXCEPT !.importGeneration = g, !.activeImportJobId = 0]
  BY DEF PageRecord
<1>r. r = IF pg.activeImportJobId # 0 THEN [page |-> claimed, ops |-> taken]
          ELSE [page |-> [claimed EXCEPT !.projectOpenGeneration = @ + 1, !.openDisabled = TRUE],
                ops |-> [taken EXCEPT ![i].pgen = claimed.projectOpenGeneration + 1, ![i].pc = "starting"]]
  BY DEF ClaimProject, BeginProject
<1>3. claimed.projectOpenGeneration + 1 = h
  BY <1>2 DEF PageRecord
<1> HIDE DEF r, g, claimed
<1>4. /\ claimed \in PageRecord /\ claimed.importGeneration = g
      /\ SamePage(pg, claimed) /\ claimed.activeImportJobId = 0 /\ claimed.gradeOpen = pg.gradeOpen
      /\ claimed.projectOpenGeneration = pg.projectOpenGeneration
  BY <1>1, <1>2 DEF PageRecord, SamePage
<1> DEFINE x == [os[i] EXCEPT !.gen = claimed.importGeneration, !.job = pg.activeImportJobId,
                              !.pc = "cancelling"]
<1>5. x \in OpRecord
  BY <1>1, <1>4 DEF OpRecord, PCs, Waiting, Working
<1>6. taken = [os EXCEPT ![i] = x]
  OBVIOUS
<1>7. /\ SameOp(os[i], x) /\ x.gen = claimed.importGeneration /\ x.job = pg.activeImportJobId
      /\ x.pc = "cancelling" /\ x.token = os[i].token /\ x.pgen = os[i].pgen
  BY <1>1 DEF OpRecord, SameOp
<1> HIDE DEF x, taken
<1>8. OnlyOp(os, taken, i) /\ taken[i] = x
  BY <1>5, <1>6 DEF OnlyOp
<1>9. CASE pg.activeImportJobId # 0
  <2>1. r = [page |-> claimed, ops |-> taken]
    BY <1>9, <1>r
  <2> QED BY <1>4, <1>7, <1>8, <1>9, <2>1 DEF ClaimsProject, ClaimsPage, g, r
<1>10. CASE pg.activeImportJobId = 0
  <2> DEFINE q == [claimed EXCEPT !.projectOpenGeneration = h, !.openDisabled = TRUE]
  <2> DEFINE y == [x EXCEPT !.pgen = h, !.pc = "starting"]
  <2> DEFINE begun == [taken EXCEPT ![i].pgen = h, ![i].pc = "starting"]
  <2> HIDE DEF h
  <2>1. r = [page |-> q, ops |-> begun]
    BY <1>10, <1>r, <1>3, <1>4 DEF PageRecord
  <2>2. /\ q \in PageRecord /\ q.importGeneration = claimed.importGeneration
        /\ SamePage(claimed, q) /\ q.activeImportJobId = 0 /\ q.gradeOpen = claimed.gradeOpen
        /\ q.projectOpenGeneration = h
    BY <1>1, <1>4 DEF PageRecord, SamePage
  <2>3. y \in OpRecord
    BY <1>1, <1>5 DEF OpRecord, PCs, Waiting, Working
  <2>4. /\ SameOp(os[i], y) /\ y.gen = x.gen /\ y.job = x.job /\ y.token = x.token
        /\ y.pgen = h /\ y.pc = "starting"
    BY <1>5, <1>7 DEF OpRecord, SameOp
  <2>5. begun = [taken EXCEPT ![i] = y]
    BY <1>8
  <2> HIDE DEF y, begun, q
  <2>6. OnlyOp(os, begun, i) /\ begun[i] = y
    BY <1>8, <2>3, <2>5 DEF OnlyOp
  <2> QED BY <1>4, <1>7, <1>10, <2>1, <2>2, <2>4, <2>6 DEF ClaimsProject, ClaimsPage, Begins, SamePage, g, h, r
<1> QED BY <1>9, <1>10

LEMMA PhotoOutcome ==
  ASSUME NEW pg \in PageRecord, NEW os \in Seq(OpRecord), NEW i \in DOMAIN os, os[i].kind = "photo"
  PROVE LET r == openStagedDesktopSource(pg, os, i) IN
        /\ r.page \in PageRecord /\ OnlyOp(os, r.ops, i) /\ SameOp(os[i], r.ops[i])
        /\ ClaimsPhoto(pg, r.page, os[i], r.ops[i])
<1> DEFINE r == openStagedDesktopSource(pg, os, i)
<1> DEFINE g == pg.importGeneration + 1
<1> DEFINE h == pg.projectOpenGeneration + 1
<1> DEFINE pc == IF pg.activeImportJobId # 0 THEN "cancelling" ELSE "preparing"
<1> DEFINE q == [Retire(claimSessionReplacement(pg)) EXCEPT
                   !.gradeOpen = claimSessionReplacement(pg).importGeneration, !.importInProgress = TRUE]
<1> DEFINE x == [os[i] EXCEPT !.gen = g, !.job = pg.activeImportJobId, !.pc = pc]
<1> DEFINE out == [os EXCEPT ![i].gen = g, ![i].job = pg.activeImportJobId, ![i].pc = pc]
<1>1. g \in Nat /\ h \in Nat /\ pg.activeImportJobId \in Nat /\ os[i] \in OpRecord
      /\ pc \in {"cancelling", "preparing"}
  BY DEF PageRecord
<1>2. claimSessionReplacement(pg).importGeneration = g
  BY DEF claimSessionReplacement, PageRecord
<1>3. r = [page |-> q, ops |-> out]
  BY <1>2 DEF openStagedDesktopSource
<1>4. q = [pg EXCEPT !.importGeneration = g, !.projectOpenGeneration = h, !.session = 0, !.doc = None,
                     !.edits = {}, !.dirty = FALSE, !.gradeOpen = g, !.importInProgress = TRUE]
  BY <1>2 DEF claimSessionReplacement, Retire, PageRecord
<1> HIDE DEF r, g, h, pc, q
<1>5. /\ q \in PageRecord /\ q.importGeneration = g /\ q.projectOpenGeneration = h /\ q.session = 0
      /\ q.edits = {} /\ q.activeImportJobId = pg.activeImportJobId /\ q.gradeOpen = g
  BY <1>1, <1>4 DEF PageRecord
<1>6. x \in OpRecord
  BY <1>1 DEF OpRecord, PCs, Waiting, Working
<1>7. out = [os EXCEPT ![i] = x]
  OBVIOUS
<1>8. /\ SameOp(os[i], x) /\ x.gen = g /\ x.job = pg.activeImportJobId
      /\ x.pc = pc /\ x.token = os[i].token /\ x.pgen = os[i].pgen
  BY <1>1 DEF OpRecord, SameOp
<1> HIDE DEF x, out
<1>9. OnlyOp(os, out, i) /\ out[i] = x
  BY <1>6, <1>7 DEF OnlyOp
<1> QED BY <1>3, <1>5, <1>8, <1>9 DEF ClaimsPhoto, ClaimsPage, g, h, pc, r

LEMMA EjectOutcome ==
  ASSUME NEW pg \in PageRecord, NEW os \in Seq(OpRecord), NEW i \in DOMAIN os, os[i].kind = "eject"
  PROVE LET r == ClaimEject(pg, os, i) IN
        /\ r.page \in PageRecord /\ OnlyOp(os, r.ops, i) /\ SameOp(os[i], r.ops[i])
        /\ ClaimsEject(pg, r.page, os[i], r.ops[i])
<1> DEFINE r == ClaimEject(pg, os, i)
<1> DEFINE g == pg.importGeneration + 1
<1> DEFINE h == pg.projectOpenGeneration + 1
<1> DEFINE pc == IF pg.activeImportJobId # 0 THEN "cancelling" ELSE "clearing"
<1> DEFINE q == [claimSessionReplacement(pg) EXCEPT !.activeImportJobId = 0]
<1> DEFINE x == [os[i] EXCEPT !.gen = g, !.job = pg.activeImportJobId, !.pc = pc]
<1> DEFINE out == [os EXCEPT ![i].gen = g, ![i].job = pg.activeImportJobId, ![i].pc = pc]
<1>1. g \in Nat /\ h \in Nat /\ pg.activeImportJobId \in Nat /\ os[i] \in OpRecord
      /\ pc \in {"cancelling", "clearing"}
  BY DEF PageRecord
<1>2. claimSessionReplacement(pg).importGeneration = g
  BY DEF claimSessionReplacement, PageRecord
<1>3. r = [page |-> q, ops |-> out]
  BY <1>2 DEF ClaimEject
<1>4. q = [pg EXCEPT !.importGeneration = g, !.projectOpenGeneration = h, !.activeImportJobId = 0]
  BY <1>2 DEF claimSessionReplacement, PageRecord
<1> HIDE DEF r, g, h, pc, q
<1>5. /\ q \in PageRecord /\ q.importGeneration = g /\ q.projectOpenGeneration = h
      /\ SamePage(pg, q) /\ q.activeImportJobId = 0 /\ q.gradeOpen = pg.gradeOpen
  BY <1>1, <1>4 DEF PageRecord, SamePage
<1>6. x \in OpRecord
  BY <1>1 DEF OpRecord, PCs, Waiting, Working
<1>7. out = [os EXCEPT ![i] = x]
  OBVIOUS
<1>8. /\ SameOp(os[i], x) /\ x.gen = g /\ x.job = pg.activeImportJobId
      /\ x.pc = pc /\ x.token = os[i].token /\ x.pgen = os[i].pgen
  BY <1>1 DEF OpRecord, SameOp
<1> HIDE DEF x, out
<1>9. OnlyOp(os, out, i) /\ out[i] = x
  BY <1>6, <1>7 DEF OnlyOp
<1> QED BY <1>3, <1>5, <1>8, <1>9 DEF ClaimsEject, ClaimsPage, g, h, pc, r

LEMMA ContinueOutcome ==
  ASSUME NEW pg \in PageRecord, NEW os \in Seq(OpRecord), NEW i \in DOMAIN os, os[i].kind \in Opens
  PROVE LET r == Continue(pg, os, i) IN
        /\ r.page \in PageRecord /\ OnlyOp(os, r.ops, i) /\ SameOp(os[i], r.ops[i])
        /\ Outcome(pg, r.page, os[i], r.ops[i])
<1> DEFINE r == Continue(pg, os, i)
<1>1. CASE os[i].kind = "photo"
  <2>1. r = openStagedDesktopSource(pg, os, i)
    BY <1>1 DEF Continue
  <2> QED BY <1>1, <2>1, PhotoOutcome DEF Outcome
<1>2. CASE os[i].kind = "eject"
  <2>1. r = ClaimEject(pg, os, i)
    BY <1>2 DEF Continue
  <2> QED BY <1>2, <2>1, EjectOutcome DEF Outcome
<1>3. CASE os[i].kind = "project" /\ os[i].again
  <2>1. r = ClaimProject(pg, os, i)
    BY <1>3 DEF Continue
  <2> QED BY <1>3, <2>1, ClaimProjectOutcome DEF Outcome
<1>4. CASE os[i].kind = "project" /\ ~os[i].again
  <2> DEFINE token == <<pg.session, pg.edits, pg.dirty>>
  <2> DEFINE x == [os[i] EXCEPT !.pc = "choosing", !.token = token]
  <2> DEFINE out == [os EXCEPT ![i].pc = "choosing", ![i].token = token]
  <2>1. r = [page |-> pg, ops |-> out]
    BY <1>4 DEF Continue, documentTransitionToken
  <2>2. token \in Tokens /\ os[i] \in OpRecord
    BY DEF PageRecord, Tokens
  <2> HIDE DEF r, token
  <2>3. x \in OpRecord
    BY <2>2 DEF OpRecord, PCs, Waiting, Working
  <2>4. /\ SameOp(os[i], x) /\ x.gen = os[i].gen /\ x.job = os[i].job /\ x.pgen = os[i].pgen
        /\ x.pc = "choosing" /\ x.token = token
    BY <2>2 DEF OpRecord, SameOp
  <2>5. out = [os EXCEPT ![i] = x]
    OBVIOUS
  <2> HIDE DEF x, out
  <2>6. OnlyOp(os, out, i) /\ out[i] = x
    BY <2>3, <2>5 DEF OnlyOp
  <2> QED BY <1>4, <2>1, <2>4, <2>6 DEF Outcome, Chooses, token, r
<1> QED
  <2>1. os[i] \in OpRecord
    OBVIOUS
  <2>2. os[i].again \in BOOLEAN
    BY <2>1 DEF OpRecord
  <2> QED BY <2>2, <1>1, <1>2, <1>3, <1>4 DEF Opens

-----------------------------------------------------------------------------
(* A transition that goes on keeps the claims.                                *)

\* An operation that is asked about has claimed nothing yet.
LEMMA AskedIsFresh ==
  ASSUME NEW o \in OpRecord, Shape(o), Serving(o), o.pc \in Asked
  PROVE o.gen = 0 /\ o.pgen = 0 /\ o.job = 0 /\ o.server = None /\ o.kind \in Opens
<1>1. o.gen \in Nat /\ o.pgen \in Nat /\ o.job \in Nat /\ o.server \in Servers
  BY DEF OpRecord
<1>2. o.pc \notin Begun \cup {"done"}
  BY DEF Asked, Begun
<1>3. o.pgen = 0
  BY <1>2 DEF Shape
<1> QED BY <1>1, <1>2, <1>3 DEF Shape, Serving

LEMMA OutcomeShapes ==
  ASSUME NEW pg \in PageRecord, NEW q \in PageRecord, NEW os \in Seq(OpRecord), NEW out,
         NEW i \in DOMAIN os, OnlyOp(os, out, i), SameOp(os[i], out[i]),
         Outcome(pg, q, os[i], out[i]), os[i].pc \in Asked, Shapes(os)
  PROVE Shapes(out)
<1> DEFINE o == os[i]
<1> DEFINE x == out[i]
<1>1. o \in OpRecord /\ x \in OpRecord
  BY DEF OnlyOp
<1>2. Shape(o) /\ Serving(o)
  BY DEF Shapes
<1>3. o.gen = 0 /\ o.pgen = 0 /\ o.job = 0 /\ o.server = None /\ o.kind \in Opens
  BY <1>1, <1>2, AskedIsFresh
<1>4. SameOp(o, x) /\ Outcome(pg, q, o, x)
  OBVIOUS
<1>5. /\ pg.importGeneration \in Nat /\ pg.projectOpenGeneration \in Nat /\ pg.activeImportJobId \in Nat
      /\ o.gen \in Nat /\ x.gen \in Nat /\ x.pgen \in Nat
  BY <1>1 DEF PageRecord, OpRecord
<1> HIDE DEF o, x
<1>6. Shape(x)
  <2>1. CASE Chooses(pg, q, o, x)
    <3>1. x.pc = "choosing" /\ x.kind = "project" /\ x.gen = 0 /\ x.pgen = 0 /\ x.job = 0
      BY <1>3, <1>4, <2>1 DEF Chooses, SameOp
    <3>2. x.token # <<>>
      BY <2>1 DEF Chooses
    <3> QED BY <3>1, <3>2 DEF Shape, Asked, Loading, Begun, Saves, HasJob, Opens
  <2>2. CASE ClaimsPhoto(pg, q, o, x)
    <3>1. x.pc \in {"cancelling", "preparing"} /\ x.kind = "photo"
      BY <1>4, <2>2 DEF ClaimsPhoto, SameOp
    <3>2. x.gen # 0 /\ x.pgen = 0
      BY <1>3, <1>5, <2>2 DEF ClaimsPhoto, ClaimsPage
    <3>3. (x.pc = "cancelling" => x.job # 0) /\ (x.pc = "preparing" => x.job = 0)
      BY <1>5, <2>2 DEF ClaimsPhoto, ClaimsPage
    <3> QED BY <3>1, <3>2, <3>3 DEF Shape, Asked, Loading, Begun, Saves, HasJob, Opens
  <2>3. CASE ClaimsEject(pg, q, o, x)
    <3>1. x.pc \in {"cancelling", "clearing"} /\ x.kind = "eject"
      BY <1>4, <2>3 DEF ClaimsEject, SameOp
    <3>2. x.gen # 0 /\ x.pgen = 0
      BY <1>3, <1>5, <2>3 DEF ClaimsEject, ClaimsPage
    <3>3. x.pc = "cancelling" => x.job # 0
      BY <1>5, <2>3 DEF ClaimsEject, ClaimsPage
    <3> QED BY <3>1, <3>2, <3>3 DEF Shape, Asked, Loading, Begun, Saves, HasJob, Opens
  <2>4. CASE ClaimsProject(pg, q, o, x)
    <3>1. x.pc \in {"cancelling", "starting"} /\ x.kind = "project"
      BY <1>4, <2>4 DEF ClaimsProject, Begins, SameOp
    <3>2. x.gen # 0 /\ (x.pc = "starting" => x.pgen # 0) /\ (x.pc = "cancelling" => x.pgen = 0)
      BY <1>3, <1>5, <2>4 DEF ClaimsProject, ClaimsPage, Begins
    <3>3. x.pc = "cancelling" => x.job # 0
      BY <1>5, <2>4 DEF ClaimsProject, ClaimsPage, Begins
    <3> QED BY <3>1, <3>2, <3>3 DEF Shape, Asked, Loading, Begun, Saves, HasJob, Opens
  <2> QED BY <1>4, <2>1, <2>2, <2>3, <2>4 DEF Outcome
<1>7. Serving(x)
  <2>1. x.server = None /\ x.kind = o.kind /\ x.target = o.target
    BY <1>3, <1>4 DEF SameOp
  <2>2. x.pc \notin {"relinking", "showing"}
    BY <1>4 DEF Outcome, Chooses, ClaimsPhoto, ClaimsEject, ClaimsProject, Begins
  <2> QED BY <1>2, <1>3, <2>1, <2>2 DEF Serving, Opens, None
<1> QED BY <1>6, <1>7 DEF Shapes, OnlyOp, x

LEMMA OutcomeParents ==
  ASSUME NEW os \in Seq(OpRecord), NEW out, NEW i \in DOMAIN os, OnlyOp(os, out, i),
         SameOp(os[i], out[i]), os[i].kind \in Opens, Parents(os),
         \A k \in DOMAIN os : k # i /\ Waits(os[k]) => os[k].parent # i
  PROVE Parents(out)
<1>1. \A k \in DOMAIN out : out[k].kind = os[k].kind /\ out[k].parent = os[k].parent
  BY DEF OnlyOp, SameOp
<1>2. \A k \in DOMAIN os : Waits(out[k]) => k # i /\ Waits(os[k]) /\ out[k] = os[k]
  BY <1>1 DEF OnlyOp, Waits, Opens
<1> QED BY <1>1, <1>2 DEF Parents, OnlyOp

LEMMA OutcomeGens ==
  ASSUME NEW pg \in PageRecord, NEW q \in PageRecord, NEW os \in Seq(OpRecord), NEW out,
         NEW i \in DOMAIN os, OnlyOp(os, out, i), SameOp(os[i], out[i]),
         Outcome(pg, q, os[i], out[i]), os[i].gen = 0, os[i].pgen = 0, Gens(pg, os)
  PROVE Gens(q, out)
<1>1. /\ pg.importGeneration \in Nat /\ pg.projectOpenGeneration \in Nat
      /\ q.importGeneration \in Nat /\ q.projectOpenGeneration \in Nat
  BY DEF PageRecord
<1>2. \A k \in DOMAIN os : os[k].gen \in Nat /\ os[k].pgen \in Nat /\ out[k].gen \in Nat /\ out[k].pgen \in Nat
  <2>1. \A k \in DOMAIN os : os[k] \in OpRecord /\ out[k] \in OpRecord
    BY DEF OnlyOp
  <2> QED BY <2>1 DEF OpRecord
<1>3. \/ q = pg /\ out[i].gen = os[i].gen /\ out[i].pgen = os[i].pgen
      \/ /\ q.importGeneration = pg.importGeneration + 1 /\ out[i].gen = q.importGeneration
         /\ \/ q.projectOpenGeneration >= pg.projectOpenGeneration /\ out[i].pgen = os[i].pgen
            \/ /\ q.projectOpenGeneration = pg.projectOpenGeneration + 1
               /\ out[i].pgen = q.projectOpenGeneration
  BY <1>1 DEF Outcome, Chooses, ClaimsPhoto, ClaimsEject, ClaimsProject, ClaimsPage, Begins
<1>4. DOMAIN out = DOMAIN os /\ \A k \in DOMAIN os : k # i => out[k] = os[k]
  BY DEF OnlyOp
<1>a. \A k \in DOMAIN os : os[k].gen <= pg.importGeneration /\ os[k].pgen <= pg.projectOpenGeneration
  BY DEF Gens
<1>5. \A k \in DOMAIN out : out[k].gen <= q.importGeneration /\ out[k].pgen <= q.projectOpenGeneration
  <2>1. pg.importGeneration <= q.importGeneration /\ pg.projectOpenGeneration <= q.projectOpenGeneration
    BY <1>1, <1>3
  <2>2. out[i].gen <= q.importGeneration /\ out[i].pgen <= q.projectOpenGeneration
    BY <1>1, <1>2, <1>3, <1>a, <2>1
  <2>3. \A k \in DOMAIN os : os[k].gen <= q.importGeneration /\ os[k].pgen <= q.projectOpenGeneration
    BY <1>1, <1>2, <1>a, <2>1
  <2> QED BY <1>4, <2>2, <2>3
<1>b. \A k \in DOMAIN os : k # i => /\ out[k].gen = 0 \/ out[k].gen # out[i].gen
                                    /\ out[k].pgen = 0 \/ out[k].pgen # out[i].pgen
  BY <1>1, <1>2, <1>3, <1>4, <1>a
<1>6. ASSUME NEW k \in DOMAIN out, NEW l \in DOMAIN out, k # l, out[k].gen # 0
      PROVE out[k].gen # out[l].gen
  <2>1. CASE k # i /\ l # i
    BY <1>4, <1>6, <2>1 DEF Gens
  <2>2. CASE k = i \/ l = i
    BY <1>4, <1>6, <2>2, <1>b
  <2> QED BY <2>1, <2>2
<1>7. ASSUME NEW k \in DOMAIN out, NEW l \in DOMAIN out, k # l, out[k].pgen # 0
      PROVE out[k].pgen # out[l].pgen
  <2>1. CASE k # i /\ l # i
    BY <1>4, <1>7, <2>1 DEF Gens
  <2>2. CASE k = i \/ l = i
    BY <1>4, <1>7, <2>2, <1>b
  <2> QED BY <2>1, <2>2
<1> QED BY <1>5, <1>6, <1>7 DEF Gens

LEMMA OutcomeNewest ==
  ASSUME NEW pg \in PageRecord, NEW q \in PageRecord, NEW os \in Seq(OpRecord), NEW out,
         NEW i \in DOMAIN os, OnlyOp(os, out, i), SameOp(os[i], out[i]),
         Outcome(pg, q, os[i], out[i]), os[i].gen = 0, os[i].pgen = 0,
         Shapes(os), Gens(pg, os), Newest(pg, os), ActiveJob(pg, os)
  PROVE Newest(q, out)
<1>1. /\ pg.importGeneration \in Nat /\ pg.projectOpenGeneration \in Nat
      /\ q.importGeneration \in Nat /\ q.projectOpenGeneration \in Nat
  BY DEF PageRecord
<1>2. \A k \in DOMAIN os : os[k].gen \in Nat /\ os[k].pgen \in Nat /\ out[k].gen \in Nat /\ out[k].pgen \in Nat
  <2>1. \A k \in DOMAIN os : os[k] \in OpRecord /\ out[k] \in OpRecord
    BY DEF OnlyOp
  <2> QED BY <2>1 DEF OpRecord
<1>3. DOMAIN out = DOMAIN os /\ \A k \in DOMAIN os : k # i => out[k] = os[k]
  BY DEF OnlyOp
<1>4. out[i].kind = os[i].kind
  BY DEF SameOp
\* Nobody opens a project: all of them are older, or none of them changes.
<1>5. CASE Chooses(pg, q, os[i], out[i])
  BY <1>2, <1>3, <1>4, <1>5 DEF Newest, Chooses
<1>6. CASE ClaimsPhoto(pg, q, os[i], out[i]) \/ ClaimsEject(pg, q, os[i], out[i])
  <2>1. q.projectOpenGeneration = pg.projectOpenGeneration + 1 /\ out[i].pgen = os[i].pgen
    BY <1>6 DEF ClaimsPhoto, ClaimsEject
  <2>2. \A k \in DOMAIN out : out[k].pgen <= pg.projectOpenGeneration
    BY <1>3, <2>1 DEF Gens
  <2> QED BY <1>1, <1>2, <1>3, <2>1, <2>2 DEF Newest
<1>7. CASE ClaimsProject(pg, q, os[i], out[i]) /\ pg.activeImportJobId = 0
  <2>1. /\ q.projectOpenGeneration = pg.projectOpenGeneration + 1 /\ out[i].pgen = q.projectOpenGeneration
        /\ q.importGeneration = pg.importGeneration + 1 /\ out[i].gen = q.importGeneration
    BY <1>7 DEF ClaimsProject, ClaimsPage, Begins
  <2>2. \A k \in DOMAIN out : k # i => out[k].pgen <= pg.projectOpenGeneration /\ out[k].gen <= pg.importGeneration
    BY <1>3 DEF Gens
  <2>3. ASSUME NEW l \in DOMAIN out, out[l].pgen # 0, out[l].pgen = q.projectOpenGeneration
        PROVE l = i
    BY <1>1, <1>2, <1>3, <2>1, <2>2, <2>3
  <2>4. \A k \in DOMAIN out : k # i => out[k].gen < out[i].gen
    BY <1>1, <1>2, <1>3, <2>1, <2>2
  <2> QED BY <2>3, <2>4 DEF Newest
<1>8. CASE ClaimsProject(pg, q, os[i], out[i]) /\ pg.activeImportJobId # 0
  <2>1. q.projectOpenGeneration = pg.projectOpenGeneration /\ out[i].pgen = 0
    BY <1>8 DEF ClaimsProject
  <2>2. PICK l \in DOMAIN os : LoadsPhoto(pg, os[l])
    BY <1>8 DEF ActiveJob
  <2>3. os[l].kind = "photo" /\ os[l].gen = pg.importGeneration /\ l # i
    BY <1>8, <2>2 DEF LoadsPhoto, ClaimsProject
  <2>4. ASSUME NEW k \in DOMAIN out, out[k].pgen # 0, out[k].pgen = q.projectOpenGeneration
        PROVE FALSE
    <3>1. k # i /\ os[k].pgen = pg.projectOpenGeneration /\ os[k].pgen # 0
      BY <1>3, <2>1, <2>4
    <3>2. k # l => os[l].gen < os[k].gen
      BY <1>3, <2>3, <3>1 DEF Newest
    <3>3. os[k].gen <= pg.importGeneration
      BY <1>3, <2>4 DEF Gens
    <3>4. k = l
      BY <1>1, <1>2, <1>3, <2>3, <3>2, <3>3
    <3> QED BY <1>3, <2>3, <2>4, <3>1, <3>4 DEF Shapes, Shape
  <2> QED BY <2>4 DEF Newest
<1> QED BY <1>5, <1>6, <1>7, <1>8 DEF Outcome

LEMMA OutcomeActiveJob ==
  ASSUME NEW pg \in PageRecord, NEW q \in PageRecord, NEW os \in Seq(OpRecord), NEW out,
         NEW i \in DOMAIN os, OnlyOp(os, out, i), SameOp(os[i], out[i]),
         Outcome(pg, q, os[i], out[i]), os[i].pc \in Asked, Gens(pg, os), ActiveJob(pg, os)
  PROVE ActiveJob(q, out)
<1>1. pg.importGeneration \in Nat /\ q.importGeneration \in Nat
  BY DEF PageRecord
<1>2. \A k \in DOMAIN os : os[k].gen \in Nat /\ out[k].gen \in Nat
  <2>1. \A k \in DOMAIN os : os[k] \in OpRecord /\ out[k] \in OpRecord
    BY DEF OnlyOp
  <2> QED BY <2>1 DEF OpRecord
<1>3. DOMAIN out = DOMAIN os /\ \A k \in DOMAIN os : k # i => out[k] = os[k]
  BY DEF OnlyOp
<1>4. out[i].kind = os[i].kind
  BY DEF SameOp
<1>5. CASE Chooses(pg, q, os[i], out[i])
  <2>1. q = pg /\ ~LoadsPhoto(pg, os[i]) /\ ~LoadsPhoto(pg, out[i]) /\ out[i].pc = "choosing"
    BY <1>4, <1>5 DEF Chooses, LoadsPhoto, Asked, Loading
  <2> QED BY <1>3, <2>1 DEF ActiveJob
<1>6. ASSUME ClaimsPage(pg, q, os[i], out[i])
      PROVE \A k \in DOMAIN out : k # i => out[k].gen # q.importGeneration /\ ~LoadsPhoto(q, out[k])
  <2>1. q.importGeneration = pg.importGeneration + 1
    BY <1>6 DEF ClaimsPage
  <2>2. \A k \in DOMAIN out : k # i => out[k].gen <= pg.importGeneration
    BY <1>3 DEF Gens
  <2> QED BY <1>1, <1>2, <1>3, <2>1, <2>2 DEF LoadsPhoto
<1>7. CASE ClaimsPhoto(pg, q, os[i], out[i])
  <2>1. /\ \A k \in DOMAIN out : k # i => out[k].gen # q.importGeneration /\ ~LoadsPhoto(q, out[k])
        /\ out[i].gen = q.importGeneration /\ q.session = 0 /\ out[i].pc \in {"cancelling", "preparing"}
    BY <1>6, <1>7 DEF ClaimsPhoto, ClaimsPage
  <2>2. LoadsPhoto(q, out[i])
    BY <1>4, <1>7, <2>1 DEF LoadsPhoto, Loading, ClaimsPhoto
  <2> QED BY <1>3, <2>1, <2>2 DEF ActiveJob
<1>8. CASE ClaimsEject(pg, q, os[i], out[i]) \/ ClaimsProject(pg, q, os[i], out[i])
  <2>1. /\ \A k \in DOMAIN out : k # i => out[k].gen # q.importGeneration /\ ~LoadsPhoto(q, out[k])
        /\ q.activeImportJobId = 0 /\ os[i].kind # "photo" /\ out[i].pc # "dropping"
    BY <1>6, <1>8 DEF ClaimsEject, ClaimsProject, Begins
  <2>2. ~LoadsPhoto(q, out[i])
    BY <1>4, <2>1 DEF LoadsPhoto
  <2> QED BY <1>3, <2>1, <2>2 DEF ActiveJob
<1> QED BY <1>5, <1>7, <1>8 DEF Outcome

LEMMA OutcomeClaims ==
  ASSUME NEW pg \in PageRecord, NEW q \in PageRecord, NEW os \in Seq(OpRecord), NEW out,
         NEW i \in DOMAIN os, OnlyOp(os, out, i), SameOp(os[i], out[i]),
         Outcome(pg, q, os[i], out[i]), os[i].pc \in Asked, Claims(pg, os),
         \A k \in DOMAIN os : k # i /\ Waits(os[k]) => os[k].parent # i
  PROVE Claims(q, out)
<1>1. os[i] \in OpRecord /\ Shape(os[i]) /\ Serving(os[i])
  BY DEF Claims, Shapes
<1>2. os[i].gen = 0 /\ os[i].pgen = 0 /\ os[i].kind \in Opens
  BY <1>1, AskedIsFresh
<1>3. Shapes(out) /\ Parents(out)
  BY <1>2, OutcomeShapes, OutcomeParents DEF Claims
<1>4. Gens(q, out) /\ Newest(q, out) /\ ActiveJob(q, out)
  BY <1>2, OutcomeGens, OutcomeNewest, OutcomeActiveJob DEF Claims
<1> QED BY <1>3, <1>4 DEF Claims

\* No overtaken work is forgotten while the backend has its session.
StillHolds(pg, os, q, out) ==
  /\ DOMAIN os \subseteq DOMAIN out
  /\ \A k \in DOMAIN os : \A st, js : HoldsIn(pg, os[k], st, js) => HoldsIn(q, out[k], st, js)
\* The backend keeps its session, and the jobs that are ready.
StillHas(st, js, st2, js2) ==
  /\ st2.session = st.session
  /\ \A j \in DOMAIN js : js[j].state = "ready" => j \in DOMAIN js2 /\ js2[j] = js[j]

LEMMA HasStill ==
  ASSUME NEW st, NEW js
  PROVE StillHas(st, js, st, js)
BY DEF StillHas

LEMMA HoldsKept ==
  ASSUME NEW pg, NEW o, NEW st, NEW st2, NEW js, NEW js2, StillHas(st, js, st2, js2),
         HoldsIn(pg, o, st, js)
  PROVE HoldsIn(pg, o, st2, js2)
BY DEF HoldsIn, StillHas

LEMMA ShownKept ==
  ASSUME NEW pg, NEW q, NEW os, NEW out, NEW st, NEW st2, NEW js, NEW js2,
         StillHolds(pg, os, q, out), StillHas(st, js, st2, js2),
         q.session \in {pg.session, 0}, Shown(pg, os, st, js)
  PROVE Shown(q, out, st2, js2)
<1>1. \A k \in DOMAIN os : HoldsIn(pg, os[k], st, js) => HoldsIn(q, out[k], st2, js2)
  BY HoldsKept DEF StillHolds
<1> QED BY <1>1 DEF Shown, StillHolds, StillHas

\* An open that is not aborted stays as it is, or none is answered that was not.
StillAnswers(pg, os, q, out) ==
  \A k \in DOMAIN out : ~Aborted(q, out[k]) /\ out[k].pgen # 0 /\ out[k].server \in InBackend =>
    /\ k \in DOMAIN os /\ ~Aborted(pg, os[k]) /\ os[k].pgen # 0 /\ os[k].server = out[k].server
    /\ out[k].session = os[k].session
    /\ out[k].pc = os[k].pc \/ out[k].pc = "opening"

LEMMA AnswersKept ==
  ASSUME NEW pg, NEW q, NEW os, NEW out, NEW st, NEW st2, NEW js, NEW js2,
         StillHolds(pg, os, q, out), StillHas(st, js, st2, js2),
         StillAnswers(pg, os, q, out), Answers(pg, os, st, js)
  PROVE Answers(q, out, st2, js2)
<1> SUFFICES ASSUME NEW i \in DOMAIN out, ~Aborted(q, out[i]) /\ out[i].pgen # 0, out[i].server \in InBackend
             PROVE /\ out[i].pc = "opening"
                   /\ out[i].server = "activated" =>
                        \/ out[i].session = st2.session
                        \/ \E k \in DOMAIN out : k # i /\ HoldsIn(q, out[k], st2, js2)
  BY DEF Answers, InBackend
<1>1. /\ i \in DOMAIN os /\ ~Aborted(pg, os[i]) /\ os[i].pgen # 0 /\ os[i].server = out[i].server
      /\ out[i].session = os[i].session /\ (out[i].pc = os[i].pc \/ out[i].pc = "opening")
  BY DEF StillAnswers
<1>2. out[i].pc = "opening"
  BY <1>1 DEF Answers, InBackend
<1>3. ASSUME out[i].server = "activated", out[i].session # st2.session
      PROVE \E k \in DOMAIN out : k # i /\ HoldsIn(q, out[k], st2, js2)
  <2>1. PICK k \in DOMAIN os : k # i /\ HoldsIn(pg, os[k], st, js)
    BY <1>1, <1>3 DEF Answers, StillHas
  <2>2. HoldsIn(pg, os[k], st2, js2)
    BY <2>1, HoldsKept
  <2> QED BY <2>1, <2>2 DEF StillHolds
<1> QED BY <1>2, <1>3

LEMMA OutcomeLive ==
  ASSUME NEW pg \in PageRecord, NEW q \in PageRecord, NEW os \in Seq(OpRecord), NEW out,
         NEW i \in DOMAIN os, OnlyOp(os, out, i), SameOp(os[i], out[i]),
         Outcome(pg, q, os[i], out[i]), os[i].pc \in Asked, Shapes(os), Gens(pg, os)
  PROVE /\ StillHolds(pg, os, q, out) /\ StillAnswers(pg, os, q, out)
        /\ \A js : Running(pg, os, js) => Running(q, out, js)
<1>1. /\ pg.importGeneration \in Nat /\ pg.projectOpenGeneration \in Nat
      /\ q.importGeneration \in Nat /\ q.projectOpenGeneration \in Nat
  BY DEF PageRecord
<1>2. \A k \in DOMAIN os : os[k] \in OpRecord /\ os[k].gen \in Nat /\ os[k].pgen \in Nat
  <2>1. \A k \in DOMAIN os : os[k] \in OpRecord
    OBVIOUS
  <2> QED BY <2>1 DEF OpRecord
<1>3. DOMAIN out = DOMAIN os /\ \A k \in DOMAIN os : k # i => out[k] = os[k]
  BY DEF OnlyOp
<1>4. os[i].gen = 0 /\ os[i].pgen = 0 /\ os[i].job = 0 /\ os[i].server = None /\ out[i].server = None
  BY <1>2, AskedIsFresh DEF Shapes, SameOp
<1>5. \A k \in DOMAIN os : k # i => (out[k].gen = q.importGeneration => os[k].gen = pg.importGeneration)
  <2>1. q = pg \/ q.importGeneration = pg.importGeneration + 1
    BY DEF Outcome, Chooses, ClaimsPhoto, ClaimsEject, ClaimsProject, ClaimsPage
  <2> QED BY <1>1, <1>2, <1>3, <2>1 DEF Gens
<1>6. \A k \in DOMAIN os : \A st, js : HoldsIn(pg, os[k], st, js) => k # i
  BY <1>4 DEF HoldsIn, None
<1>7. StillHolds(pg, os, q, out)
  BY <1>3, <1>5, <1>6 DEF StillHolds, HoldsIn, Stale
<1>8. StillAnswers(pg, os, q, out)
  <2>1. q = pg \/ q.projectOpenGeneration = pg.projectOpenGeneration
               \/ q.projectOpenGeneration = pg.projectOpenGeneration + 1
    BY DEF Outcome, Chooses, ClaimsPhoto, ClaimsEject, ClaimsProject, Begins
  <2>2. \A k \in DOMAIN os : k # i => (out[k].pgen = q.projectOpenGeneration => os[k].pgen = pg.projectOpenGeneration)
    BY <1>1, <1>2, <1>3, <2>1 DEF Gens
  <2> QED BY <1>3, <1>4, <2>2 DEF StillAnswers, Aborted, InBackend, None
<1>9. ASSUME NEW js, Running(pg, os, js) PROVE Running(q, out, js)
  <2> SUFFICES ASSUME NEW j \in DOMAIN js, js[j].state = "running"
               PROVE \E k \in DOMAIN out : Launches(q, out[k], j)
    BY DEF Running
  <2>1. PICK k \in DOMAIN os : Launches(pg, os[k], j)
    BY <1>9 DEF Running
  <2>2. k # i
    BY <2>1 DEF Launches, Launched, HasJob, Asked
  <2>3. Launches(q, out[k], j)
    BY <1>3, <1>5, <2>1, <2>2 DEF Launches
  <2> QED BY <1>3, <2>3
<1> QED BY <1>7, <1>8, <1>9

LEMMA OutcomeFits ==
  ASSUME NEW pg \in PageRecord, NEW q \in PageRecord, NEW o \in OpRecord, NEW x \in OpRecord,
         SameOp(o, x), Outcome(pg, q, o, x), NEW s \in Nat, NEW m \in Nat, NEW n \in Nat,
         PageFits(pg, s, m, n), OpFits(o, s, m, n), o.server = None
  PROVE PageFits(q, s, m, n) /\ OpFits(x, s, m, n)
<1>1. /\ pg.importGeneration \in Nat /\ q.importGeneration \in Nat /\ pg.gradeOpen \in Nat
      /\ pg.activeImportJobId \in Nat /\ pg.edits \in SUBSET Nat
  BY DEF PageRecord
<1>2. PageFits(q, s, m, n)
  <2>1. q.session \in {pg.session, 0} /\ q.edits \in {pg.edits, {}}
    BY DEF Outcome, Chooses, ClaimsPhoto, ClaimsEject, ClaimsProject, SamePage
  <2>2. q.activeImportJobId \in {pg.activeImportJobId, 0}
    BY DEF Outcome, Chooses, ClaimsPhoto, ClaimsEject, ClaimsProject
  <2>3. q.gradeOpen <= q.importGeneration
    BY <1>1 DEF SamePage, Outcome, Chooses, ClaimsPhoto, ClaimsEject, ClaimsProject, ClaimsPage, PageFits
  <2> QED BY <1>1, <2>1, <2>2, <2>3 DEF PageFits
<1>3. OpFits(x, s, m, n)
  <2>1. x.session = o.session /\ x.server = None
    BY DEF SameOp
  <2>2. x.job \in {o.job, pg.activeImportJobId}
    BY DEF Outcome, Chooses, ClaimsPhoto, ClaimsEject, ClaimsProject, ClaimsPage
  <2>3. x.token = o.token \/ x.token = <<pg.session, pg.edits, pg.dirty>>
    BY DEF Outcome, Chooses, ClaimsPhoto, ClaimsEject, ClaimsProject, ClaimsPage
  <2>4. x.token # <<>> => x.token[2] \subseteq 1..m
    BY <2>3 DEF OpFits, PageFits
  <2> QED BY <2>1, <2>2, <2>4 DEF OpFits, PageFits, None
<1> QED BY <1>2, <1>3

LEMMA ContinueGood ==
  ASSUME NEW pg, NEW os, NEW st, NEW js, NEW s \in Nat, NEW m \in Nat, js \in Seq(JobRecord),
         Good(pg, os, st, js, s, m), NEW i \in DOMAIN os, os[i].pc \in Asked,
         \A k \in DOMAIN os : k # i /\ Waits(os[k]) => os[k].parent # i
  PROVE LET r == Continue(pg, os, i) IN
        /\ Good(r.page, r.ops, st, js, s, m) /\ OnlyOp(os, r.ops, i) /\ r.ops[i].pc # "new"
        /\ r.page.session \in {pg.session, 0}
<1> DEFINE r == Continue(pg, os, i)
<1>1. pg \in PageRecord /\ os \in Seq(OpRecord) /\ os[i] \in OpRecord /\ Shape(os[i]) /\ Serving(os[i])
      /\ Len(js) \in Nat
  BY DEF Good, Claims, Shapes
<1>2. os[i].gen = 0 /\ os[i].pgen = 0 /\ os[i].job = 0 /\ os[i].server = None /\ os[i].kind \in Opens
  BY <1>1, AskedIsFresh
<1>3. /\ r.page \in PageRecord /\ OnlyOp(os, r.ops, i) /\ SameOp(os[i], r.ops[i])
      /\ Outcome(pg, r.page, os[i], r.ops[i])
  BY <1>1, <1>2, ContinueOutcome
<1> HIDE DEF r
<1>4. r.ops \in Seq(OpRecord) /\ r.ops[i] \in OpRecord
  BY <1>3 DEF OnlyOp
<1>5. PageFits(r.page, s, m, Len(js)) /\ \A k \in DOMAIN r.ops : OpFits(r.ops[k], s, m, Len(js))
  <2>1. PageFits(r.page, s, m, Len(js)) /\ OpFits(r.ops[i], s, m, Len(js))
    BY <1>1, <1>2, <1>3, <1>4, OutcomeFits DEF Good
  <2> QED BY <1>3, <2>1 DEF Good, OnlyOp
<1>6. Claims(r.page, r.ops)
  BY <1>1, <1>3, OutcomeClaims DEF Good
<1>7. /\ StillHolds(pg, os, r.page, r.ops) /\ StillAnswers(pg, os, r.page, r.ops)
      /\ Running(r.page, r.ops, js)
  BY <1>1, <1>3, OutcomeLive DEF Good, Claims
<1>8. r.page.session \in {pg.session, 0}
  BY <1>3 DEF Outcome, Chooses, ClaimsPhoto, ClaimsEject, ClaimsProject, SamePage
<1>9. Shown(r.page, r.ops, st, js) /\ Answers(r.page, r.ops, st, js)
  BY <1>7, <1>8, HasStill, ShownKept, AnswersKept DEF Good
<1> QED BY <1>3, <1>4, <1>5, <1>6, <1>7, <1>8, <1>9 DEF Good, SameOp, r

-----------------------------------------------------------------------------
(* Operations that begin.                                                     *)

LEMMA Appended ==
  ASSUME NEW os \in Seq(OpRecord), NEW o \in OpRecord
  PROVE LET out == Append(os, o)
            n == Len(os) + 1
        IN /\ out \in Seq(OpRecord) /\ DOMAIN out = DOMAIN os \cup {n} /\ Len(out) = n
           /\ n \notin DOMAIN os /\ out[n] = o /\ \A k \in DOMAIN os : out[k] = os[k]
OBVIOUS

\* Appended as facts about a name for the longer sequence.
Longer(os, out, n, o) ==
  /\ out \in Seq(OpRecord) /\ DOMAIN out = DOMAIN os \cup {n} /\ Len(out) = n /\ n = Len(os) + 1
  /\ n \notin DOMAIN os /\ out[n] = o /\ \A k \in DOMAIN os : out[k] = os[k]

Unclaimed(o) == o.gen = 0 /\ o.pgen = 0 /\ o.job = 0 /\ o.server = None
HasParent(os, o) ==
  Waits(o) /\ o.parent # 0 =>
    /\ o.parent \in DOMAIN os /\ os[o.parent].pc = "saving"
    /\ \A k \in DOMAIN os : Waits(os[k]) => os[k].parent # o.parent

LEMMA AppendGood ==
  ASSUME NEW pg, NEW os, NEW st, NEW js, NEW s \in Nat, NEW m \in Nat, Good(pg, os, st, js, s, m),
         NEW o \in OpRecord, Unclaimed(o), Shape(o), Serving(o), o.session <= s, o.token = <<>>,
         o.pc \in Asked \cup Saves, HasParent(os, o), js \in Seq(JobRecord)
  PROVE LET out == Append(os, o) IN
        /\ Good(pg, out, st, js, s, m) /\ Longer(os, out, Len(os) + 1, o)
<1> DEFINE out == Append(os, o)
<1> DEFINE n == Len(os) + 1
<1>1. Longer(os, out, n, o)
  BY Appended DEF Good, Longer
<1>2. pg \in PageRecord /\ os \in Seq(OpRecord) /\ Len(js) \in Nat
  BY DEF Good
<1> HIDE DEF out, n
<1>3. /\ DOMAIN out = DOMAIN os \cup {n} /\ n \notin DOMAIN os /\ out[n] = o
      /\ \A k \in DOMAIN os : out[k] = os[k]
  BY <1>1 DEF Longer
<1>4. /\ pg.importGeneration \in Nat /\ pg.projectOpenGeneration \in Nat
      /\ \A k \in DOMAIN os : os[k].gen \in Nat /\ os[k].pgen \in Nat
  <2>1. \A k \in DOMAIN os : os[k] \in OpRecord
    BY <1>2
  <2> QED BY <1>2, <2>1 DEF PageRecord, OpRecord
<1>5. Shapes(out)
  BY <1>3 DEF Good, Claims, Shapes
<1>6. Parents(out)
  <2>1. Parents(os)
    BY DEF Good, Claims
  <2>2. ASSUME NEW i \in DOMAIN os, Waits(os[i]), os[i].parent # 0
        PROVE /\ os[i].parent \in DOMAIN os /\ os[os[i].parent].pc = "saving"
              /\ \A k \in DOMAIN os : k # i /\ Waits(os[k]) => os[k].parent # os[i].parent
              /\ Waits(o) => o.parent # os[i].parent
    BY <2>1, <2>2 DEF Parents, HasParent
  <2> QED BY <1>3, <2>2 DEF Parents, HasParent
<1>7. Gens(pg, out) /\ Newest(pg, out)
  <2>1. Gens(pg, os) /\ Newest(pg, os) /\ Shapes(os)
    BY DEF Good, Claims
  <2>2. o.gen = 0 /\ o.pgen = 0
    BY DEF Unclaimed
  <2>3. \A k \in DOMAIN os : os[k].pgen # 0 => os[k].gen # 0
    BY <2>1 DEF Shapes, Shape
  <2>4. Gens(pg, out)
    BY <1>3, <1>4, <2>1, <2>2 DEF Gens
  <2>5. Newest(pg, out)
    BY <1>3, <1>4, <2>1, <2>2, <2>3 DEF Newest
  <2> QED BY <2>4, <2>5
<1>8. o.pc \notin Loading \cup {"dropping"} \cup Launched
  BY DEF Asked, Saves, Loading, Launched, HasJob
<1>9. ActiveJob(pg, out)
  <2>1. ~LoadsPhoto(pg, o)
    BY <1>8 DEF LoadsPhoto
  <2> QED BY <1>3, <1>8, <2>1 DEF Good, Claims, ActiveJob
<1>10. Running(pg, out, js)
  BY <1>3 DEF Good, Running
<1>11. StillHolds(pg, os, pg, out) /\ StillAnswers(pg, os, pg, out)
  BY <1>3 DEF StillHolds, StillAnswers, Unclaimed
<1>12. Shown(pg, out, st, js) /\ Answers(pg, out, st, js)
  BY <1>11, HasStill, ShownKept, AnswersKept DEF Good
<1>13. \A k \in DOMAIN out : OpFits(out[k], s, m, Len(js))
  <2>1. OpFits(o, s, m, Len(js))
    BY <1>2 DEF OpFits, Unclaimed, None
  <2> QED BY <1>3, <2>1 DEF Good
<1> QED BY <1>1, <1>2, <1>5, <1>6, <1>7, <1>9, <1>10, <1>12, <1>13 DEF Good, Claims, Longer, out, n

-----------------------------------------------------------------------------
(* Operations that go on without claiming the page.                           *)

SameClaim(o, x) == x.kind = o.kind /\ x.gen = o.gen /\ x.pgen = o.pgen /\ x.parent = o.parent
SameGens(pg, q) ==
  q.importGeneration = pg.importGeneration /\ q.projectOpenGeneration = pg.projectOpenGeneration

LEMMA StepClaims ==
  ASSUME NEW pg \in PageRecord, NEW q \in PageRecord, NEW os \in Seq(OpRecord), NEW out,
         NEW i \in DOMAIN os, OnlyOp(os, out, i), SameClaim(os[i], out[i]), SameGens(pg, q),
         Shape(out[i]), Serving(out[i]), Waits(out[i]) => Waits(os[i]),
         os[i].pc = "saving" =>
           \/ out[i].pc = "saving"
           \/ \A k \in DOMAIN os : k # i /\ Waits(os[k]) => os[k].parent # i,
         ActiveJob(q, out), Claims(pg, os)
  PROVE Claims(q, out)
<1>1. DOMAIN out = DOMAIN os /\ \A k \in DOMAIN os : k # i => out[k] = os[k]
  BY DEF OnlyOp
<1>2. \A k \in DOMAIN os : SameClaim(os[k], out[k])
  BY <1>1 DEF SameClaim
<1>3. Shapes(out)
  BY <1>1 DEF Claims, Shapes
<1>4. Parents(out)
  <2> SUFFICES ASSUME NEW l \in DOMAIN out, Waits(out[l]), out[l].parent # 0
               PROVE /\ out[l].parent \in DOMAIN out /\ out[out[l].parent].pc = "saving"
                     /\ \A k \in DOMAIN out : k # l /\ Waits(out[k]) => out[k].parent # out[l].parent
    BY DEF Parents
  <2>1. \A k \in DOMAIN os : Waits(out[k]) => Waits(os[k]) /\ out[k].parent = os[k].parent
    BY <1>1, <1>2 DEF SameClaim
  <2>2. /\ os[l].parent \in DOMAIN os /\ os[os[l].parent].pc = "saving" /\ Waits(os[l])
        /\ \A k \in DOMAIN os : k # l /\ Waits(os[k]) => os[k].parent # os[l].parent
    BY <1>1, <2>1 DEF Claims, Parents
  <2>3. out[os[l].parent].pc = "saving"
    <3>1. CASE os[l].parent # i
      BY <1>1, <2>2, <3>1
    <3>2. CASE os[l].parent = i /\ l # i
      BY <1>1, <2>2, <3>2
    <3>3. CASE os[l].parent = i /\ l = i
      <4>1. os[i].pc = "saving" /\ os[i].kind = "save"
        BY <2>2, <3>3 DEF Waits
      <4>2. Shape(os[i])
        BY DEF Claims, Shapes
      <4> QED BY <4>1, <4>2 DEF Shape, Asked, Opens
    <3> QED BY <3>1, <3>2, <3>3
  <2> QED BY <1>1, <2>1, <2>2, <2>3
<1>5. Gens(q, out)
  BY <1>1, <1>2 DEF Claims, Gens, SameClaim, SameGens
<1>6. Newest(q, out)
  BY <1>1, <1>2 DEF Claims, Newest, SameClaim, SameGens
<1> QED BY <1>3, <1>4, <1>5, <1>6 DEF Claims

\* What is no photo's operation does not load one.
LEMMA StepJobs ==
  ASSUME NEW pg, NEW q, NEW os, NEW out, NEW i \in DOMAIN os, OnlyOp(os, out, i),
         SameClaim(os[i], out[i]), SameGens(pg, q), q.session \in {pg.session, 0},
         q.activeImportJobId = pg.activeImportJobId, Shape(out[i]),
         os[i].kind # "photo" \/ (out[i].pc = os[i].pc /\ out[i].job = os[i].job)
                              \/ (os[i].pc \in Asked /\ out[i].pc \in Asked)
  PROVE /\ ActiveJob(pg, os) => ActiveJob(q, out)
        /\ \A js : Running(pg, os, js) => Running(q, out, js)
<1>1. DOMAIN out = DOMAIN os /\ \A k \in DOMAIN os : k # i => out[k] = os[k]
  BY DEF OnlyOp
<1>2. \A k \in DOMAIN os : LoadsPhoto(q, out[k]) <=> LoadsPhoto(pg, os[k])
  BY <1>1 DEF LoadsPhoto, SameClaim, SameGens, Asked, Loading
<1>3. \A k \in DOMAIN os : LoadsPhoto(pg, os[k]) => out[k].pc = os[k].pc /\ out[k].job = os[k].job
  BY <1>1 DEF LoadsPhoto, Asked, Loading
<1>4. \A k \in DOMAIN os : out[k].pc = "dropping" => os[k].pc = "dropping" /\ out[k].gen = os[k].gen
  BY <1>1 DEF SameClaim, Asked, Shape, Loading
<1>5. ASSUME ActiveJob(pg, os) PROVE ActiveJob(q, out)
  <2>1. \A k \in DOMAIN out : LoadsPhoto(q, out[k]) => q.session = 0
    BY <1>1, <1>2, <1>5 DEF ActiveJob
  <2>2. \A k \in DOMAIN out : LoadsPhoto(q, out[k]) /\ out[k].pc \in {"polling", "fetching"}
                              => out[k].job = q.activeImportJobId
    BY <1>1, <1>2, <1>3, <1>5 DEF ActiveJob
  <2>3. q.activeImportJobId # 0 => \E k \in DOMAIN out : LoadsPhoto(q, out[k]) /\ out[k].pc # "attaching"
    BY <1>1, <1>2, <1>3, <1>5 DEF ActiveJob
  <2>4. \A k \in DOMAIN out : out[k].pc = "dropping" => out[k].gen # q.importGeneration
    BY <1>1, <1>4, <1>5 DEF ActiveJob, SameGens
  <2> QED BY <2>1, <2>2, <2>3, <2>4 DEF ActiveJob
<1>6. \A k \in DOMAIN os : \A j : Launches(pg, os[k], j) => Launches(q, out[k], j)
  BY <1>1 DEF Launches, SameClaim, SameGens, Asked, Launched, HasJob
<1>7. \A js : Running(pg, os, js) => Running(q, out, js)
  BY <1>1, <1>6 DEF Running
<1> QED BY <1>5, <1>7

\* What a step of one operation may change in it, while it claims nothing.
AnswersStep(pg, o, x) ==
  /\ o.server = "activated" => x.server = "activated" /\ x.session = o.session
  /\ o.server = "cleared late" => x.server = "cleared late"
  /\ o.kind = "photo" /\ Stale(pg, o) => x.job = o.job
  /\ ~Aborted(pg, o) =>
       /\ x.server = "activated" => o.server = "activated" /\ x.session = o.session
       /\ x.server \in InBackend => x.pc = "opening" \/ (o.server \in InBackend /\ x.pc = o.pc)

LEMMA StepAnswers ==
  ASSUME NEW pg, NEW q, NEW os, NEW out, NEW i \in DOMAIN os, NEW st, NEW st2, NEW js, OnlyOp(os, out, i),
         SameClaim(os[i], out[i]), SameGens(pg, q), AnswersStep(pg, os[i], out[i]), st2.session = st.session
  PROVE /\ StillHolds(pg, os, q, out) /\ StillHas(st, js, st2, js)
        /\ Answers(pg, os, st, js) => Answers(q, out, st2, js)
<1>1. DOMAIN out = DOMAIN os /\ \A k \in DOMAIN os : k # i => out[k] = os[k]
  BY DEF OnlyOp
<1>2. StillHolds(pg, os, q, out)
  <2>1. \A k \in DOMAIN os : Stale(pg, os[k]) <=> Stale(q, out[k])
    BY <1>1 DEF Stale, SameClaim, SameGens
  <2>2. \A k \in DOMAIN os :
           /\ out[k].kind = os[k].kind
           /\ os[k].server = "activated" => out[k].server = "activated" /\ out[k].session = os[k].session
           /\ os[k].server = "cleared late" => out[k].server = "cleared late"
           /\ os[k].kind = "photo" /\ Stale(pg, os[k]) => out[k].job = os[k].job
    BY <1>1 DEF SameClaim, AnswersStep
  <2> QED BY <1>1, <2>1, <2>2 DEF StillHolds, HoldsIn
<1>3. StillHas(st, js, st2, js)
  BY DEF StillHas
<1>4. ASSUME Answers(pg, os, st, js),
             NEW k \in DOMAIN out, ~Aborted(q, out[k]) /\ out[k].pgen # 0, out[k].server \in InBackend
      PROVE /\ out[k].pc = "opening"
            /\ out[k].server = "activated" =>
                 \/ out[k].session = st2.session
                 \/ \E l \in DOMAIN out : l # k /\ HoldsIn(q, out[l], st2, js)
  <2>1. ~Aborted(pg, os[k]) /\ os[k].pgen # 0
    BY <1>1, <1>4 DEF Aborted, SameClaim, SameGens
  <2>2. out[k].pc = "opening" \/ (os[k].server \in InBackend /\ out[k].pc = os[k].pc)
    BY <1>1, <1>4, <2>1 DEF AnswersStep
  <2>3. out[k].pc = "opening"
    BY <1>1, <1>4, <2>1, <2>2 DEF Answers, InBackend
  <2>4. ASSUME out[k].server = "activated", out[k].session # st2.session
        PROVE \E l \in DOMAIN out : l # k /\ HoldsIn(q, out[l], st2, js)
    <3>1. os[k].server = "activated" /\ os[k].session # st.session
      BY <1>1, <2>1, <2>4 DEF AnswersStep
    <3>2. PICK l \in DOMAIN os : l # k /\ HoldsIn(pg, os[l], st, js)
      BY <1>1, <1>4, <2>1, <3>1 DEF Answers
    <3>3. HoldsIn(pg, os[l], st2, js)
      BY <1>3, <3>2, HoldsKept
    <3> QED BY <1>1, <1>2, <3>2, <3>3 DEF StillHolds
  <2> QED BY <2>3, <2>4
<1>5. Answers(pg, os, st, js) => Answers(q, out, st2, js)
  BY <1>4 DEF Answers, InBackend
<1> QED BY <1>2, <1>3, <1>5

LEMMA StepGood ==
  ASSUME NEW pg, NEW q \in PageRecord, NEW os, NEW out, NEW st, NEW st2, NEW js, NEW s, NEW m,
         Good(pg, os, st, js, s, m), NEW i \in DOMAIN os, OnlyOp(os, out, i),
         SameClaim(os[i], out[i]), SameGens(pg, q), AnswersStep(pg, os[i], out[i]),
         q.session \in {pg.session, 0}, q.activeImportJobId = pg.activeImportJobId,
         Shape(out[i]), Serving(out[i]), OpFits(out[i], s, m, Len(js)), PageFits(q, s, m, Len(js)),
         Waits(out[i]) => Waits(os[i]),
         os[i].pc = "saving" =>
           \/ out[i].pc = "saving"
           \/ \A k \in DOMAIN os : k # i /\ Waits(os[k]) => os[k].parent # i,
         os[i].kind # "photo" \/ (out[i].pc = os[i].pc /\ out[i].job = os[i].job)
                              \/ (os[i].pc \in Asked /\ out[i].pc \in Asked),
         st2.session = st.session
  PROVE Good(q, out, st2, js, s, m)
<1>1. /\ pg \in PageRecord /\ os \in Seq(OpRecord) /\ out \in Seq(OpRecord)
      /\ DOMAIN out = DOMAIN os /\ \A k \in DOMAIN os : k # i => out[k] = os[k]
  BY DEF Good, OnlyOp
<1>2. /\ Claims(pg, os) /\ ActiveJob(pg, os) /\ Running(pg, os, js)
      /\ Shown(pg, os, st, js) /\ Answers(pg, os, st, js)
  BY DEF Good, Claims
<1>3. ActiveJob(q, out) /\ Running(q, out, js)
  BY <1>2, StepJobs
<1>4. Claims(q, out)
  BY <1>1, <1>2, <1>3, StepClaims
<1>5. StillHolds(pg, os, q, out) /\ StillHas(st, js, st2, js) /\ Answers(q, out, st2, js)
  BY <1>2, StepAnswers
<1>6. Shown(q, out, st2, js)
  BY <1>2, <1>5, ShownKept
<1>7. \A k \in DOMAIN out : OpFits(out[k], s, m, Len(js))
  BY <1>1 DEF Good
<1> QED BY <1>1, <1>3, <1>4, <1>5, <1>6, <1>7 DEF Good

\* Early edits: the other operations may go on waiting.
LEMMA StepEarly ==
  ASSUME NEW pg, NEW q, NEW os, NEW out, NEW st, NEW st2, NEW U, NEW i \in DOMAIN os,
         OnlyOp(os, out, i), SamePage(pg, q), q.importGeneration = pg.importGeneration,
         st2.session = st.session, st2.edits = st.edits,
         U # {} /\ MayWait(pg, os[i], st, U) => MayWait(q, out[i], st2, U),
         Early(pg, os, st, U)
  PROVE Early(q, out, st2, U)
<1> SUFFICES ASSUME U # {} PROVE Early(q, out, st2, U)
  BY DEF Early
<1>1. /\ U \subseteq q.edits /\ q.dirty /\ q.session # 0 /\ ~q.grade /\ q.gradeOpen = 0
      /\ \A k \in DOMAIN os : MayWait(pg, os[k], st, U)
  BY DEF Early, SamePage
<1>2. \A k \in DOMAIN out : MayWait(q, out[k], st2, U)
  <2>1. \A k \in DOMAIN os : k # i => MayWait(q, os[k], st2, U)
    BY <1>1 DEF MayWait, SamePage, Stale
  <2> QED BY <1>1, <2>1 DEF OnlyOp
<1> QED BY <1>1, <1>2 DEF Early

LEMMA ConfirmGood ==
  ASSUME NEW pg, NEW os, NEW st, NEW js, NEW s \in Nat, NEW m \in Nat, NEW U, js \in Seq(JobRecord),
         Good(pg, os, st, js, s, m), NEW i \in DOMAIN os, os[i].pc \in Asked,
         \A k \in DOMAIN os : k # i /\ Waits(os[k]) => os[k].parent # i, Early(pg, os, st, U)
  PROVE LET r == confirmUnsavedTransition(pg, os, i) IN
        /\ Good(r.page, r.ops, st, js, s, m) /\ OnlyOp(os, r.ops, i) /\ r.ops[i].pc # "new"
        /\ r.page.session \in {pg.session, 0} /\ Early(r.page, r.ops, st, U)
<1> DEFINE r == confirmUnsavedTransition(pg, os, i)
<1>1. /\ pg \in PageRecord /\ os \in Seq(OpRecord) /\ os[i] \in OpRecord /\ Shape(os[i]) /\ Serving(os[i])
      /\ Len(js) \in Nat /\ OpFits(os[i], s, m, Len(js)) /\ PageFits(pg, s, m, Len(js))
  BY DEF Good, Claims, Shapes
<1>2. os[i].gen = 0 /\ os[i].pgen = 0 /\ os[i].job = 0 /\ os[i].server = None /\ os[i].kind \in Opens
  BY <1>1, AskedIsFresh
<1>3. ASSUME NEW pc \in {"leaving", "confirm"}, r = [page |-> pg, ops |-> [os EXCEPT ![i].pc = pc, ![i].session = pg.session]],
             U # {} => pc = "confirm"
      PROVE /\ Good(r.page, r.ops, st, js, s, m) /\ OnlyOp(os, r.ops, i) /\ r.ops[i].pc # "new"
            /\ r.page.session \in {pg.session, 0} /\ Early(r.page, r.ops, st, U)
  <2> DEFINE x == [os[i] EXCEPT !.pc = pc, !.session = pg.session]
  <2> DEFINE out == [os EXCEPT ![i].pc = pc, ![i].session = pg.session]
  <2>1. r.page = pg /\ r.ops = out
    BY <1>3
  <2>2. pg.session \in Nat
    BY <1>1 DEF PageRecord
  <2>3. x \in OpRecord
    BY <1>1, <2>2 DEF OpRecord, PCs, Waiting, Working
  <2>4. /\ SameClaim(os[i], x) /\ x.pc = pc /\ x.session = pg.session /\ x.server = os[i].server
        /\ x.job = os[i].job /\ x.token = os[i].token /\ x.target = os[i].target /\ x.kind = os[i].kind
    BY <1>1 DEF OpRecord, SameClaim
  <2>5. out = [os EXCEPT ![i] = x]
    OBVIOUS
  <2> HIDE DEF x, out, r
  <2>6. OnlyOp(os, out, i) /\ out[i] = x
    BY <1>1, <2>3, <2>5 DEF OnlyOp
  <2>7. Shape(x)
    BY <1>2, <2>4 DEF Shape, SameClaim, Asked, Loading, Begun, Saves, HasJob
  <2>8. Serving(x)
    BY <1>1, <1>2, <2>4 DEF Serving, Opens, None
  <2>9. OpFits(x, s, m, Len(js))
    BY <1>1, <1>2, <2>4 DEF OpFits, None, PageFits
  <2>10. AnswersStep(pg, os[i], x) /\ ~Waits(x) /\ x.pc \in Asked
    BY <1>2, <2>4 DEF AnswersStep, InBackend, None, Waits, Opens, Asked
  <2>11. Good(pg, out, st, js, s, m)
    BY <1>1, <2>4, <2>6, <2>7, <2>8, <2>9, <2>10, StepGood DEF SameGens
  <2>12. U # {} => MayWait(pg, x, st, U)
    BY <1>3, <2>4 DEF MayWait, Past, Loading, Begun
  <2>13. Early(pg, out, st, U)
    BY <2>6, <2>12, StepEarly DEF SamePage
  <2> QED BY <2>1, <2>4, <2>6, <2>11, <2>13
<1>4. CASE Active(pg)
  <2>1. r = [page |-> pg, ops |-> [os EXCEPT ![i].pc = "leaving", ![i].session = pg.session]]
    BY <1>4 DEF confirmUnsavedTransition
  <2>2. U = {}
    BY <1>4 DEF Early, Active
  <2> QED BY <1>3, <2>1, <2>2
<1>5. CASE ~Active(pg) /\ pg.session # 0 /\ pg.dirty
  <2>1. r = [page |-> pg, ops |-> [os EXCEPT ![i].pc = "confirm", ![i].session = pg.session]]
    BY <1>5 DEF confirmUnsavedTransition
  <2> QED BY <1>3, <2>1
<1>6. CASE ~Active(pg) /\ ~(pg.session # 0 /\ pg.dirty)
  <2>1. r = Continue(pg, os, i)
    BY <1>6 DEF confirmUnsavedTransition
  <2>2. U = {}
    BY <1>6 DEF Early
  <2> HIDE DEF r
  <2>3. Early(r.page, r.ops, st, U)
    BY <2>2 DEF Early
  <2>4. /\ Good(r.page, r.ops, st, js, s, m) /\ OnlyOp(os, r.ops, i) /\ r.ops[i].pc # "new"
        /\ r.page.session \in {pg.session, 0}
    BY <2>1, ContinueGood
  <2> QED BY <2>3, <2>4 DEF r
<1> QED BY <1>4, <1>5, <1>6

-----------------------------------------------------------------------------
(* The user.                                                                  *)

Rests == {"photos", "projects", "saves", "saveAs", "ejects", "cancels", "edits", "faults"}

LEMMA Spending ==
  ASSUME left \in Budget, NEW what \in Rests, Spend(what)
  PROVE left' \in Budget
<1> DEFINE n == left[what] - 1
<1>1. left[what] \in Nat /\ left[what] > 0
  BY DEF Budget, Rests, Spend
<1>2. n \in Nat
  BY <1>1
<1>3. left' = [left EXCEPT ![what] = n]
  BY DEF Spend
<1> HIDE DEF n
<1> QED BY <1>2, <1>3 DEF Budget, Rests

LEMMA BackendKept ==
  ASSUME Backend, UNCHANGED <<store, jobs, files, sessions, made, early>>, left' \in Budget,
         Len(ops) \in Nat, Len(ops') \in Nat, Len(ops) <= Len(ops'), settled' \subseteq 1..made
  PROVE Backend'
BY DEF Backend, StoreFits, StoreRecord

LEMMA SameUnsaved ==
  ASSUME early' = early, settled' = settled
  PROVE Unsaved' = Unsaved
BY DEF Unsaved

\* Nothing else is known of what is unsaved when nothing is.
LEMMA NothingEarly ==
  ASSUME NEW pg, NEW os, NEW st PROVE Early(pg, os, st, {})
BY DEF Early

LEMMA NewIsNoParent ==
  ASSUME NEW pg, NEW os, NEW st, NEW js, NEW s, NEW m, Good(pg, os, st, js, s, m)
  PROVE \A k \in DOMAIN os : Waits(os[k]) => os[k].parent # Len(os) + 1
<1>1. os \in Seq(OpRecord) /\ Parents(os) /\ Len(os) \in Nat
  BY DEF Good, Claims
<1>2. Len(os) + 1 \notin DOMAIN os /\ Len(os) + 1 # 0
  BY <1>1
<1> QED BY <1>1, <1>2 DEF Parents

LEMMA AppendEarly ==
  ASSUME NEW pg, NEW os, NEW out, NEW st, NEW n, NEW o, NEW U, Longer(os, out, n, o),
         U # {} => MayWait(pg, o, st, U), Early(pg, os, st, U)
  PROVE Early(pg, out, st, U)
BY DEF Early, Longer

LEMMA Assemble ==
  ASSUME Backend', Good(page', ops', store', jobs', sessions', made'),
         \A k \in DOMAIN ops' : ops'[k].pc # "new", Early(page', ops', store', Unsaved')
  PROVE DocumentInv'
BY DEF DocumentInv, Ops

\* What the invariant says of each part, to cite.
LEMMA Known ==
  ASSUME DocumentInv
  PROVE /\ Good(page, ops, store, jobs, sessions, made) /\ sessions \in Nat /\ made \in Nat
        /\ page \in PageRecord /\ ops \in Seq(OpRecord) /\ jobs \in Seq(JobRecord) /\ store \in StoreRecord
        /\ left \in Budget /\ Early(page, ops, store, Unsaved) /\ Backend /\ Claims(page, ops)
        /\ \A k \in DOMAIN ops : ops[k].pc # "new" /\ Shape(ops[k]) /\ Serving(ops[k])
        /\ PageFits(page, sessions, made, Len(jobs))
        /\ \A k \in DOMAIN ops : ops[k] \in OpRecord /\ OpFits(ops[k], sessions, made, Len(jobs))
        /\ settled \subseteq 1..made /\ Len(jobs) \in Nat /\ Len(ops) \in Nat
        /\ Shown(page, ops, store, jobs) /\ Answers(page, ops, store, jobs) /\ Running(page, ops, jobs)
<1>1. /\ Good(page, ops, store, jobs, sessions, made) /\ Early(page, ops, store, Unsaved) /\ Backend
      /\ \A k \in DOMAIN ops : ops[k].pc # "new"
  BY DEF DocumentInv, Ops
<1>2. ops \in Seq(OpRecord) /\ jobs \in Seq(JobRecord)
  BY <1>1 DEF Good, Backend
<1> QED BY <1>1, <1>2 DEF Good, Backend, Claims, Shapes

LEMMA OpenKeeps ==
  ASSUME DocumentInv, NEW kind \in Opens, NEW f \in Docs \cup {None},
         kind = "photo" => f \in Photos, kind = "project" => f \in Projects,
         Becomes(confirmUnsavedTransition(page, Append(ops, Operation(kind, f, "new")), Len(ops) + 1)),
         UNCHANGED <<store, jobs, files, sessions, made, early, settled>>, left' \in Budget
  PROVE DocumentInv'
<1> DEFINE o == Operation(kind, f, "new")
<1> DEFINE out == Append(ops, o)
<1> DEFINE n == Len(ops) + 1
<1> DEFINE r == confirmUnsavedTransition(page, out, n)
<1>1. /\ Good(page, ops, store, jobs, sessions, made) /\ sessions \in Nat /\ made \in Nat
      /\ jobs \in Seq(JobRecord) /\ ops \in Seq(OpRecord) /\ Early(page, ops, store, Unsaved)
  BY DEF DocumentInv, Backend, Good
<1>2. o \in OpRecord
  <2>1. kind \in Kinds /\ "new" \in PCs /\ <<>> \in Tokens /\ None \in Servers
    BY DEF Kinds, Opens, PCs, Tokens, Servers
  <2>2. None \in Docs \cup {None} /\ None \in Content0 \cup {None}
    OBVIOUS
  <2> HIDE DEF None
  <2> QED BY <2>1, <2>2 DEF OpRecord, Operation
<1>3. /\ o.pc = "new" /\ o.kind = kind /\ o.target = f /\ o.gen = 0 /\ o.pgen = 0 /\ o.job = 0
      /\ o.server = None /\ o.session = 0 /\ o.token = <<>> /\ o.parent = 0
  BY DEF Operation
<1> HIDE DEF o
<1>4. Unclaimed(o) /\ ~Waits(o) /\ HasParent(ops, o)
  BY <1>3 DEF Unclaimed, Waits, HasParent, Opens
<1>5. Shape(o)
  BY <1>3 DEF Shape, Asked, Loading, Begun, Saves, HasJob
<1>6. Serving(o)
  <2>1. o.kind # "save" /\ o.server = "none" /\ o.pc # "relinking"
    BY <1>3 DEF Opens, None
  <2> QED BY <1>3, <2>1 DEF Serving, None
<1>7. Good(page, out, store, jobs, sessions, made) /\ Longer(ops, out, n, o)
  <2>1. o.session <= sessions /\ o.pc \in Asked \cup Saves
    BY <1>1, <1>3 DEF Asked
  <2> QED BY <1>1, <1>2, <1>3, <1>4, <1>5, <1>6, <2>1, AppendGood
<1> HIDE DEF out
<1>8. Early(page, out, store, Unsaved)
  <2>1. MayWait(page, o, store, Unsaved)
    BY <1>3 DEF MayWait, Past, Loading, Begun
  <2> QED BY <1>1, <1>7, <2>1, AppendEarly
<1>9. n \in DOMAIN out /\ out[n].pc \in Asked /\ \A k \in DOMAIN out : k # n /\ Waits(out[k]) => out[k].parent # n
  BY <1>1, <1>3, <1>7, NewIsNoParent DEF Longer, Asked
<1> HIDE DEF n
<1>10. /\ Good(r.page, r.ops, store, jobs, sessions, made) /\ OnlyOp(out, r.ops, n) /\ r.ops[n].pc # "new"
       /\ Early(r.page, r.ops, store, Unsaved)
  BY <1>1, <1>7, <1>8, <1>9, ConfirmGood
<1>11. page' = r.page /\ ops' = r.ops
  BY DEF Becomes, out, n, o
<1> HIDE DEF r
<1>12. \A k \in DOMAIN ops' : ops'[k].pc # "new"
  <2>1. \A k \in DOMAIN ops : ops[k].pc # "new"
    BY DEF DocumentInv, Ops
  <2> QED BY <1>7, <1>10, <1>11, <2>1 DEF Longer, OnlyOp
<1>13. Backend'
  <2>1. Len(ops) \in Nat /\ Len(ops') = Len(out) /\ Len(out) = Len(ops) + 1
    BY <1>1, <1>7, <1>10, <1>11 DEF Longer, OnlyOp
  <2>2. Len(ops') \in Nat /\ Len(ops) <= Len(ops')
    BY <2>1
  <2>3. Backend /\ settled' \subseteq 1..made
    BY DEF DocumentInv, Backend
  <2> QED BY <2>1, <2>2, <2>3, BackendKept
<1>14. Unsaved' = Unsaved
  BY SameUnsaved
<1> QED BY <1>10, <1>11, <1>12, <1>13, <1>14, Assemble

LEMMA CancelKeeps ==
  ASSUME DocumentInv, cancelActiveImport
  PROVE DocumentInv'
<1> DEFINE g == page.importGeneration + 1
<1> DEFINE loading == page.gradeOpen # 0
<1> DEFINE stopped == [(IF loading THEN Retire(page) ELSE page)
                         EXCEPT !.importGeneration = @ + 1, !.activeImportJobId = 0,
                                !.importInProgress = FALSE]
<1> DEFINE op == [Operation("cancel", None, "cancelling")
                    EXCEPT !.gen = stopped.importGeneration, !.job = page.activeImportJobId]
<1> DEFINE x == IF page.activeImportJobId # 0 THEN op ELSE [op EXCEPT !.pc = "done"]
<1> DEFINE q == IF page.activeImportJobId # 0 THEN stopped ELSE finishGradeOpen(stopped)
<1> DEFINE n == Len(ops) + 1
<1>1. page' = q /\ ops' = Append(ops, x)
  BY DEF cancelActiveImport
<1>2. /\ page \in PageRecord /\ ops \in Seq(OpRecord) /\ jobs \in Seq(JobRecord) /\ sessions \in Nat /\ made \in Nat
      /\ Claims(page, ops) /\ PageFits(page, sessions, made, Len(jobs)) /\ Len(jobs) \in Nat
  BY Known
<1>3. g \in Nat /\ g # 0 /\ page.importGeneration \in Nat /\ page.activeImportJobId \in Nat /\ page.gradeOpen \in Nat
      /\ page.projectOpenGeneration \in Nat
  BY <1>2 DEF PageRecord
<1>4. stopped = [(IF loading THEN Retire(page) ELSE page)
                   EXCEPT !.importGeneration = g, !.activeImportJobId = 0, !.importInProgress = FALSE]
  BY <1>2 DEF Retire, PageRecord
<1> HIDE DEF g, stopped
<1>5. /\ stopped \in PageRecord /\ stopped.importGeneration = g /\ stopped.activeImportJobId = 0
      /\ stopped.projectOpenGeneration = page.projectOpenGeneration /\ stopped.gradeOpen = page.gradeOpen
      /\ IF loading THEN stopped.session = 0 /\ stopped.edits = {} ELSE SamePage(page, stopped)
  <2>1. CASE loading
    BY <1>2, <1>3, <1>4, <2>1 DEF PageRecord, Retire
  <2>2. CASE ~loading
    BY <1>2, <1>3, <1>4, <2>2 DEF PageRecord, SamePage
  <2> QED BY <2>1, <2>2
<1>6. /\ q \in PageRecord /\ q.importGeneration = g /\ q.activeImportJobId = 0
      /\ q.projectOpenGeneration = page.projectOpenGeneration /\ q.gradeOpen \in {page.gradeOpen, 0}
      /\ IF loading THEN q.session = 0 /\ q.edits = {} ELSE SamePage(page, q)
  <2>1. CASE page.activeImportJobId # 0
    BY <1>5, <2>1
  <2>2. CASE page.activeImportJobId = 0
    <3>1. q = [stopped EXCEPT !.gradeOpen = 0, !.importInProgress = FALSE, !.activeImportJobId = 0]
      BY <2>2 DEF finishGradeOpen
    <3> HIDE DEF q
    <3> QED BY <1>5, <3>1 DEF PageRecord, SamePage
  <2> QED BY <2>1, <2>2
<1>7. /\ op \in OpRecord /\ op.pc = "cancelling" /\ op.gen = g /\ op.job = page.activeImportJobId
      /\ op.kind = "cancel" /\ op.server = None /\ op.session = 0 /\ op.token = <<>> /\ op.pgen = 0
  <2>1. "cancel" \in Kinds /\ "cancelling" \in PCs /\ <<>> \in Tokens /\ None \in Servers
    BY DEF Kinds, PCs, Working, Tokens, Servers
  <2>2. None \in Docs \cup {None} /\ None \in Content0 \cup {None}
    OBVIOUS
  <2> HIDE DEF None
  <2> QED BY <1>3, <1>5, <2>1, <2>2 DEF OpRecord, Operation
<1> HIDE DEF op, q
<1>8. /\ x \in OpRecord /\ x.gen = g /\ x.job = page.activeImportJobId /\ x.kind = "cancel" /\ x.server = None
      /\ x.session = 0 /\ x.token = <<>> /\ x.pgen = 0
      /\ x.pc = IF page.activeImportJobId # 0 THEN "cancelling" ELSE "done"
  BY <1>7 DEF OpRecord, PCs
<1> HIDE DEF x
<1>9. Longer(ops, ops', n, x)
  BY <1>1, <1>2, <1>8, Appended DEF Longer
<1>10. /\ DOMAIN ops' = DOMAIN ops \cup {n} /\ n \notin DOMAIN ops /\ ops'[n] = x
       /\ \A k \in DOMAIN ops : ops'[k] = ops[k]
  BY <1>9 DEF Longer
<1>11. \A k \in DOMAIN ops : ops[k].gen \in Nat /\ ops[k].pgen \in Nat /\ ops[k].gen < g
  <2>1. \A k \in DOMAIN ops : ops[k] \in OpRecord
    BY <1>2
  <2>2. \A k \in DOMAIN ops : ops[k].gen <= page.importGeneration
    BY <1>2 DEF Claims, Gens
  <2> QED BY <1>3, <2>1, <2>2 DEF OpRecord, g
<1>12. Shapes(ops')
  <2>1. Shape(x)
    BY <1>3, <1>8 DEF Shape, Asked, Loading, Begun, Saves, HasJob
  <2>2. Serving(x)
    BY <1>8 DEF Serving, None
  <2> QED BY <1>2, <1>10, <2>1, <2>2 DEF Claims, Shapes
<1>13. Parents(ops')
  <2>1. ~Waits(x)
    BY <1>8 DEF Waits
  <2> QED BY <1>2, <1>10, <2>1 DEF Claims, Parents
<1>14. Gens(q, ops') /\ Newest(q, ops')
  <2>1. Gens(page, ops) /\ Newest(page, ops)
    BY <1>2 DEF Claims
  <2>2. \A k \in DOMAIN ops' : ops'[k].gen <= q.importGeneration /\ ops'[k].pgen <= q.projectOpenGeneration
    BY <1>3, <1>6, <1>8, <1>10, <1>11, <2>1 DEF Gens
  <2>3. Gens(q, ops')
    BY <1>3, <1>8, <1>10, <1>11, <2>1, <2>2 DEF Gens
  <2>4. Newest(q, ops')
    BY <1>6, <1>8, <1>10, <2>1 DEF Newest
  <2> QED BY <2>3, <2>4
<1>15. \A k \in DOMAIN ops' : ~LoadsPhoto(q, ops'[k])
  BY <1>6, <1>8, <1>10, <1>11 DEF LoadsPhoto
<1>16. ActiveJob(q, ops')
  BY <1>6, <1>8, <1>10, <1>11, <1>15 DEF ActiveJob
<1>17. Running(q, ops', jobs)
  <2>1. Running(page, ops, jobs)
    BY Known
  <2>2. \A k \in DOMAIN ops : \A j : Launches(page, ops[k], j) => Launches(q, ops'[k], j)
    BY <1>6, <1>10, <1>11 DEF Launches
  <2> QED BY <1>10, <2>1, <2>2 DEF Running
<1>18. StillHolds(page, ops, q, ops') /\ StillAnswers(page, ops, q, ops')
  <2>1. \A k \in DOMAIN ops : ops'[k].gen # q.importGeneration
    BY <1>3, <1>6, <1>10, <1>11
  <2>2. StillHolds(page, ops, q, ops')
    BY <1>10, <2>1 DEF StillHolds, HoldsIn, Stale
  <2>3. StillAnswers(page, ops, q, ops')
    BY <1>6, <1>8, <1>10 DEF StillAnswers, Aborted, InBackend, None
  <2> QED BY <2>2, <2>3
<1>19. Shown(q, ops', store, jobs) /\ Answers(q, ops', store, jobs)
  <2>1. q.session \in {page.session, 0}
    BY <1>6 DEF SamePage
  <2> QED BY <1>18, <2>1, HasStill, ShownKept, AnswersKept, Known
<1>20. Good(q, ops', store, jobs, sessions, made)
  <2>1. PageFits(q, sessions, made, Len(jobs))
    BY <1>2, <1>3, <1>6 DEF PageFits, SamePage, g
  <2>2. OpFits(x, sessions, made, Len(jobs))
    BY <1>2, <1>8 DEF OpFits, PageFits, None
  <2>3. \A k \in DOMAIN ops' : OpFits(ops'[k], sessions, made, Len(jobs))
    BY <1>10, <2>2, Known
  <2> QED BY <1>6, <1>9, <1>12, <1>13, <1>14, <1>16, <1>17, <1>19, <2>1, <2>3 DEF Good, Claims, Longer
<1>21. Early(q, ops', store, Unsaved)
  <2> SUFFICES ASSUME Unsaved # {} PROVE Early(q, ops', store, Unsaved)
    BY DEF Early
  <2>1. /\ page.gradeOpen = 0 /\ Unsaved \subseteq page.edits /\ page.dirty /\ page.session # 0 /\ ~page.grade
        /\ \A k \in DOMAIN ops : MayWait(page, ops[k], store, Unsaved)
    BY Known DEF Early
  <2>2. page.activeImportJobId = 0
    BY <1>2, <2>1 DEF Claims, ActiveJob, LoadsPhoto, MayWait, Past
  <2>3. MayWait(q, x, store, Unsaved)
    BY <1>8, <2>2 DEF MayWait, Past, Loading, Begun
  <2>4. SamePage(page, q)
    BY <1>6, <2>1
  <2>5. \A k \in DOMAIN ops : MayWait(q, ops[k], store, Unsaved)
    BY <1>3, <1>6, <1>11, <2>1, <2>4 DEF MayWait, SamePage, Stale
  <2> QED BY <1>10, <2>1, <2>3, <2>4, <2>5 DEF Early, SamePage
<1>22. UNCHANGED <<store, jobs, files, sessions, made, early, settled>> /\ left' \in Budget
  BY Spending, Known DEF cancelActiveImport, Rests
<1>23. Backend'
  <2>1. Len(ops') \in Nat /\ Len(ops) <= Len(ops') /\ Len(ops) \in Nat
    BY <1>2, <1>9 DEF Longer
  <2> QED BY <1>22, <2>1, Known, BackendKept
<1>24. \A k \in DOMAIN ops' : ops'[k].pc # "new"
  BY <1>8, <1>10, Known
<1>25. Good(page', ops', store', jobs', sessions', made') /\ Early(page', ops', store', Unsaved')
  BY <1>1, <1>20, <1>21, <1>22, SameUnsaved
<1> QED BY <1>23, <1>24, <1>25, Assemble

\* What a project's own operations see of the page may change around the claims.
LEMMA PageGood ==
  ASSUME NEW pg, NEW q \in PageRecord, NEW os, NEW st, NEW st2, NEW js, NEW s, NEW m,
         NEW s2 \in Nat, NEW m2 \in Nat, s \in Nat, m \in Nat, js \in Seq(JobRecord),
         Good(pg, os, st, js, s, m), SameGens(pg, q), q.session = pg.session,
         q.activeImportJobId = pg.activeImportJobId, PageFits(q, s2, m2, Len(js)),
         s <= s2, m <= m2, st2.session = st.session
  PROVE Good(q, os, st2, js, s2, m2)
<1>1. /\ os \in Seq(OpRecord) /\ Claims(pg, os) /\ Running(pg, os, js)
      /\ Shown(pg, os, st, js) /\ Answers(pg, os, st, js)
      /\ \A k \in DOMAIN os : os[k] \in OpRecord /\ OpFits(os[k], s, m, Len(js))
  BY DEF Good
<1>2. Claims(q, os)
  BY <1>1 DEF Claims, Gens, Newest, ActiveJob, LoadsPhoto, SameGens
<1>3. Running(q, os, js)
  BY <1>1 DEF Running, Launches, SameGens
<1>4. Shown(q, os, st2, js) /\ Answers(q, os, st2, js)
  <2>1. StillHolds(pg, os, q, os)
    BY DEF StillHolds, HoldsIn, Stale, SameGens
  <2>2. StillAnswers(pg, os, q, os)
    BY DEF StillAnswers, Aborted, SameGens
  <2>3. StillHas(st, js, st2, js)
    BY DEF StillHas
  <2> QED BY <1>1, <2>1, <2>2, <2>3, ShownKept, AnswersKept
<1>5. \A k \in DOMAIN os : OpFits(os[k], s2, m2, Len(js))
  <2> TAKE k \in DOMAIN os
  <2>1. os[k] \in OpRecord /\ OpFits(os[k], s, m, Len(js))
    BY <1>1
  <2>2. os[k].session \in Nat /\ 1..m \subseteq 1..m2
    BY <2>1 DEF OpRecord
  <2> QED BY <2>1, <2>2 DEF OpFits
<1> QED BY <1>1, <1>2, <1>3, <1>4, <1>5 DEF Good

\* A save that the user asked for, or that a question (its parent) waits for.
SaveOf(parent, o) ==
  \/ o = [Operation("save", page.path, "flushing") EXCEPT !.parent = parent, !.shown = page.doc]
  \/ /\ parent = 0
     /\ \E as \in BOOLEAN :
          o = [Operation("save", page.path, "flushing") EXCEPT !.saveAs = as, !.shown = page.doc]

LEMMA SaveOperation ==
  ASSUME NEW parent \in Nat, page \in PageRecord, NEW o, SaveOf(parent, o)
  PROVE /\ o \in OpRecord /\ o.pc = "flushing" /\ o.kind = "save" /\ o.parent = parent /\ Unclaimed(o)
        /\ Shape(o) /\ Serving(o) /\ o.session = 0 /\ o.token = <<>>
<1>1. page.path \in Projects \cup {None} /\ page.doc \in Docs \cup {None} /\ page.path \in Docs \cup {None}
  BY DEF PageRecord, Docs
<1>2. "save" \in Kinds /\ "flushing" \in PCs /\ <<>> \in Tokens /\ None \in Servers
  BY DEF Kinds, PCs, Working, Tokens, Servers
<1>3. /\ o \in OpRecord /\ o.pc = "flushing" /\ o.kind = "save" /\ o.parent = parent
      /\ o.gen = 0 /\ o.pgen = 0 /\ o.job = 0 /\ o.server = None /\ o.session = 0 /\ o.token = <<>>
      /\ o.target = page.path
  <2> HIDE DEF None
  <2>1. CASE o = [Operation("save", page.path, "flushing") EXCEPT !.parent = parent, !.shown = page.doc]
    BY <1>1, <1>2, <2>1 DEF OpRecord, Operation
  <2>2. ASSUME parent = 0, NEW as \in BOOLEAN,
               o = [Operation("save", page.path, "flushing") EXCEPT !.saveAs = as, !.shown = page.doc]
        PROVE /\ o \in OpRecord /\ o.pc = "flushing" /\ o.kind = "save" /\ o.parent = parent
              /\ o.gen = 0 /\ o.pgen = 0 /\ o.job = 0 /\ o.server = None /\ o.session = 0 /\ o.token = <<>>
              /\ o.target = page.path
    BY <1>1, <1>2, <2>2 DEF OpRecord, Operation
  <2> QED BY <2>1, <2>2 DEF SaveOf
<1>4. Shape(o)
  BY <1>3 DEF Shape, Asked, Loading, Begun, Saves, HasJob
<1>5. Serving(o)
  BY <1>1, <1>3 DEF Serving, None
<1> QED BY <1>3, <1>4, <1>5 DEF Unclaimed

LEMMA SaveKeeps ==
  ASSUME DocumentInv, NEW as \in BOOLEAN, saveProjectToPath(as)
  PROVE DocumentInv'
<1> DEFINE o == [Operation("save", page.path, "flushing") EXCEPT !.saveAs = as, !.shown = page.doc]
<1>1. page' = page /\ ops' = Append(ops, o)
  BY DEF saveProjectToPath
<1>2. /\ UNCHANGED <<store, jobs, files, sessions, made, early, settled>> /\ left' \in Budget
  BY Spending, Known DEF saveProjectToPath, Rests
<1>3. /\ o \in OpRecord /\ o.pc = "flushing" /\ o.kind = "save" /\ o.parent = 0 /\ Unclaimed(o)
      /\ Shape(o) /\ Serving(o) /\ o.session = 0 /\ o.token = <<>>
  <2>1. page \in PageRecord /\ 0 \in Nat
    BY Known
  <2>3. SaveOf(0, o)
    BY DEF SaveOf
  <2> HIDE DEF o
  <2> QED BY <2>1, <2>3, SaveOperation
<1> HIDE DEF o
<1>4. o.session <= sessions /\ o.pc \in Asked \cup Saves /\ HasParent(ops, o)
  BY <1>3, Known DEF Saves, HasParent
<1>5. Good(page, ops', store, jobs, sessions, made) /\ Longer(ops, ops', Len(ops) + 1, o)
  BY <1>1, <1>3, <1>4, Known, AppendGood
<1>6. Early(page, ops', store, Unsaved)
  <2>1. MayWait(page, o, store, Unsaved)
    BY <1>3 DEF MayWait, Past, Loading, Begun
  <2> QED BY <1>5, <2>1, Known, AppendEarly
<1>7. Backend'
  <2>1. Len(ops') \in Nat /\ Len(ops) <= Len(ops') /\ Len(ops) \in Nat
    BY <1>5, Known DEF Longer
  <2> QED BY <1>2, <2>1, Known, BackendKept
<1>8. \A k \in DOMAIN ops' : ops'[k].pc # "new"
  BY <1>3, <1>5, Known DEF Longer
<1>9. Good(page', ops', store', jobs', sessions', made') /\ Early(page', ops', store', Unsaved')
  BY <1>1, <1>2, <1>5, <1>6, SameUnsaved
<1> QED BY <1>7, <1>8, <1>9, Assemble

LEMMA EditKeeps ==
  ASSUME DocumentInv, Edit
  PROVE DocumentInv'
<1> DEFINE e == made + 1
<1> DEFINE edits == page.edits \cup {e}
<1>1. /\ e \in Nat /\ made < e /\ made' = e /\ page.edits \in SUBSET Nat /\ edits \in SUBSET Nat
      /\ page \in PageRecord /\ made \in Nat /\ sessions \in Nat
      /\ \A k \in DOMAIN ops : ops[k] \in OpRecord /\ OpFits(ops[k], sessions, made, Len(jobs))
      /\ PageFits(page, sessions, made, Len(jobs))
  <2>1. page \in PageRecord /\ made \in Nat
    BY Known
  <2> QED BY <2>1, Known DEF Edit, PageRecord
<1>2. page' = [page EXCEPT !.edits = edits, !.dirty = TRUE]
  BY <1>1 DEF Edit, PageRecord
<1> HIDE DEF e, edits
<1>3. /\ page' \in PageRecord /\ page'.edits = edits /\ page'.dirty /\ page'.session = page.session
      /\ page'.grade = page.grade /\ page'.gradeOpen = page.gradeOpen /\ SameGens(page, page')
      /\ page'.activeImportJobId = page.activeImportJobId
  BY <1>1, <1>2 DEF PageRecord, SameGens
<1>4. /\ UNCHANGED <<ops, store, jobs, files, sessions, settled>> /\ left' \in Budget
      /\ page.session # 0 /\ ~Active(page) /\ page.gradeOpen = 0
      /\ \A k \in DOMAIN ops : ops[k].pc # "confirm"
      /\ early' = IF \E k \in DOMAIN ops : PastQuestion(ops[k]) THEN early ELSE early \cup {e}
  <2>1. left' \in Budget
    BY Spending, Known DEF Edit, Rests
  <2>2. made' = e
    BY <1>1
  <2> QED BY <2>1, <2>2 DEF Edit, Ops
<1>5. Good(page', ops, store, jobs, sessions, e)
  <2>1. edits \subseteq 1..e
    BY <1>1 DEF PageFits, edits
  <2>2. PageFits(page', sessions, e, Len(jobs))
    BY <1>1, <1>3, <2>1 DEF PageFits, SameGens
  <2>3. /\ Good(page, ops, store, jobs, sessions, made) /\ jobs \in Seq(JobRecord)
        /\ sessions <= sessions /\ made <= e
    BY <1>1, Known
  <2> QED BY <1>1, <1>3, <2>2, <2>3, PageGood
<1>6. 1..made \subseteq 1..e /\ e \in 1..e /\ e \notin 1..made
  BY <1>1
<1>7. Backend'
  BY <1>1, <1>4, <1>6, Known DEF Backend, StoreFits
<1>8. Early(page', ops, store, Unsaved')
  <2>1. Early(page, ops, store, Unsaved)
    BY Known
  <2>2. CASE ~\E k \in DOMAIN ops : PastQuestion(ops[k])
    <3>1. Unsaved' = Unsaved \cup {e}
      BY <1>4, <1>6, <2>2, Known DEF Unsaved
    <3>2. Unsaved' \subseteq page'.edits
      BY <1>3, <2>1, <3>1 DEF Early, edits
    <3>3. ASSUME NEW k \in DOMAIN ops PROVE MayWait(page', ops[k], store, Unsaved')
      <4>1. CASE ops[k].pc = "done"
        BY <4>1 DEF MayWait, Past, Loading, Begun
      <4>2. CASE ops[k].pc = "choosing"
        <5>1. ops[k].token # <<>> /\ ops[k].token[2] \subseteq 1..made
          BY <1>1, <4>2, Known DEF Shape, OpFits
        <5>2. Unsaved \cap ops[k].token[2] = {}
          BY <2>1, <4>2 DEF Early, MayWait
        <5>3. Unsaved' \cap ops[k].token[2] = {}
          BY <1>6, <3>1, <5>1, <5>2
        <5> QED BY <4>2, <5>3 DEF MayWait, Past, Loading, Begun
      <4>3. CASE ops[k].pc = "showing"
        <5>1. ops[k].kind # "photo" \/ Stale(page, ops[k])
          BY <2>2, <4>3 DEF PastQuestion
        <5> QED BY <1>3, <4>3, <5>1 DEF MayWait, Past, Loading, Begun, Stale, SameGens
      <4> QED BY <2>2, <4>1, <4>2, <4>3 DEF PastQuestion
    <3> QED BY <1>3, <1>4, <3>2, <3>3 DEF Early, Active
  <2>3. CASE \E k \in DOMAIN ops : PastQuestion(ops[k])
    <3>1. Unsaved' = Unsaved
      BY <1>4, <2>3 DEF Unsaved
    <3>2. \A k \in DOMAIN ops : MayWait(page, ops[k], store, Unsaved) => MayWait(page', ops[k], store, Unsaved)
      BY <1>3 DEF MayWait, Stale, SameGens
    <3>3. page.edits \subseteq page'.edits
      BY <1>3 DEF edits
    <3> QED BY <1>3, <2>1, <3>1, <3>2, <3>3 DEF Early
  <2> QED BY <2>2, <2>3
<1>9. Good(page', ops', store', jobs', sessions', made') /\ Early(page', ops', store', Unsaved')
  BY <1>1, <1>4, <1>5, <1>8
<1>10. \A k \in DOMAIN ops' : ops'[k].pc # "new"
  BY <1>4, Known
<1> QED BY <1>7, <1>9, <1>10, Assemble

-----------------------------------------------------------------------------
(* One operation goes on.                                                     *)

\* Nothing of an operation changes but its pc.
Moves(o, x, pc) ==
  /\ SameClaim(o, x) /\ x.pc = pc /\ x.job = o.job /\ x.session = o.session /\ x.server = o.server
  /\ x.token = o.token /\ x.target = o.target /\ x.read = o.read

LEMMA Moved ==
  ASSUME NEW os \in Seq(OpRecord), NEW i \in DOMAIN os, NEW pc \in PCs
  PROVE LET out == [os EXCEPT ![i].pc = pc]
        IN OnlyOp(os, out, i) /\ Moves(os[i], out[i], pc) /\ out[i] \in OpRecord
<1> DEFINE x == [os[i] EXCEPT !.pc = pc]
<1> DEFINE out == [os EXCEPT ![i].pc = pc]
<1>1. os[i] \in OpRecord
  OBVIOUS
<1>2. x \in OpRecord /\ Moves(os[i], x, pc)
  BY <1>1 DEF OpRecord, Moves, SameClaim
<1>3. out = [os EXCEPT ![i] = x]
  OBVIOUS
<1> HIDE DEF x
<1> QED BY <1>2, <1>3 DEF OnlyOp

\* An operation that moves on keeps what it fits in and what the backend knows of it.
LEMMA MovedFits ==
  ASSUME NEW o, NEW x, NEW pc, Moves(o, x, pc), NEW s, NEW m, NEW n, OpFits(o, s, m, n)
  PROVE OpFits(x, s, m, n)
BY DEF Moves, OpFits

LEMMA MovedServes ==
  ASSUME NEW o, NEW x, NEW pc, Moves(o, x, pc), Serving(o), pc \notin {"starting", "relinking", "showing"},
         o.server # "cleared late" \/ pc = "done"
  PROVE Serving(x)
BY DEF Moves, SameClaim, Serving

\* A transition past its last question leaves nothing unsaved behind.
LEMMA PastIsSettled ==
  ASSUME DocumentInv, NEW i \in DOMAIN ops, ops[i].pc \in Past
  PROVE Unsaved = {}
BY Known DEF Early, MayWait

\* The invariant of a step of a transition that is past its question.
LEMMA PastKeeps ==
  ASSUME DocumentInv, NEW i \in DOMAIN ops, ops[i].pc \in Past,
         Good(page', ops', store', jobs', sessions', made'), OnlyOp(ops, ops', i), ops'[i].pc # "new",
         Backend', early' = early, settled' = settled
  PROVE DocumentInv'
<1>1. Unsaved' = {}
  BY PastIsSettled, SameUnsaved
<1>2. \A k \in DOMAIN ops' : ops'[k].pc # "new"
  BY Known DEF OnlyOp
<1> QED BY <1>1, <1>2, NothingEarly, Assemble

\* The backend's session stays, while jobs may end.
LEMMA BackendJobs ==
  ASSUME DocumentInv, NEW i \in DOMAIN ops, OnlyOp(ops, ops', i), left' \in Budget,
         UNCHANGED <<store, files, sessions, made, early, settled>>,
         jobs' \in Seq(JobRecord), \A j \in DOMAIN jobs' : jobs'[j].session <= sessions
  PROVE Backend'
BY Known DEF Backend, OnlyOp

\* Nobody waits for an operation that is not in the state "saving".
LEMMA NoParent ==
  ASSUME NEW os, Parents(os), NEW i \in DOMAIN os, os[i].pc # "saving", os \in Seq(OpRecord)
  PROVE \A k \in DOMAIN os : k # i /\ Waits(os[k]) => os[k].parent # i
<1>1. i # 0
  OBVIOUS
<1> QED BY <1>1 DEF Parents

\* Jobs that end, or are cancelled.
LEMMA JobsGood ==
  ASSUME NEW pg, NEW os, NEW st, NEW js, NEW js2, NEW s, NEW m, Good(pg, os, st, js, s, m),
         Len(js2) = Len(js), DOMAIN js2 \subseteq DOMAIN js,
         \A j \in DOMAIN js2 : js2[j].state = "running" => js[j].state = "running",
         StillHas(st, js, st, js2)
  PROVE Good(pg, os, st, js2, s, m)
<1>1. StillHolds(pg, os, pg, os) /\ StillAnswers(pg, os, pg, os)
  BY DEF StillHolds, StillAnswers
<1>2. Shown(pg, os, st, js2) /\ Answers(pg, os, st, js2)
  BY <1>1, ShownKept, AnswersKept DEF Good
<1> QED BY <1>2 DEF Good, Running

LEMMA CancelledJob ==
  ASSUME DocumentInv, NEW n \in Nat
  PROVE /\ CancelJob(n) \in Seq(JobRecord) /\ Len(CancelJob(n)) = Len(jobs) /\ DOMAIN CancelJob(n) = DOMAIN jobs
        /\ \A j \in DOMAIN jobs : /\ CancelJob(n)[j].state = "running" => jobs[j].state = "running" /\ j # n
                                  /\ CancelJob(n)[j].session <= sessions
        /\ StillHas(store, jobs, store, CancelJob(n))
<1>1. jobs \in Seq(JobRecord) /\ \A j \in DOMAIN jobs : jobs[j].session <= sessions
  BY Known DEF Backend
<1>2. CASE n \in DOMAIN jobs /\ jobs[n].state = "running"
  <2> DEFINE x == [jobs[n] EXCEPT !.state = "cancelled"]
  <2>1. jobs[n] \in JobRecord
    BY <1>1, <1>2
  <2>2. x \in JobRecord /\ x.state = "cancelled" /\ x.session = jobs[n].session
    BY <2>1 DEF JobRecord
  <2>3. CancelJob(n) = [jobs EXCEPT ![n] = x]
    BY <1>2 DEF CancelJob
  <2> HIDE DEF x
  <2> QED BY <1>1, <1>2, <2>2, <2>3 DEF StillHas
<1>3. CASE ~(n \in DOMAIN jobs /\ jobs[n].state = "running")
  <2>1. CancelJob(n) = jobs
    BY <1>1, <1>3 DEF CancelJob
  <2> QED BY <1>1, <1>3, <2>1 DEF StillHas
<1> QED BY <1>2, <1>3

-----------------------------------------------------------------------------
(* The open of a photo, step by step.                                         *)

\* What a step of the newest photo's open, or of an overtaken one, leaves in
\* the page.
PhotoPage(pg, q, st, o, x) ==
  IF o.gen = pg.importGeneration
  THEN /\ q.activeImportJobId # 0 => x.pc \in Loading \ {"attaching"}
       /\ x.pc \in {"polling", "fetching"} => x.job = q.activeImportJobId
       /\ x.pc # "dropping"
       /\ x.pc \in Loading => q.session = 0
       /\ q.session \in {pg.session, 0, st.session}
  ELSE q = pg /\ o.job \in {0, x.job}

LEMMA PhotoActiveJob ==
  ASSUME NEW pg, NEW q, NEW os, NEW out, NEW st, NEW i \in DOMAIN os, OnlyOp(os, out, i),
         SameClaim(os[i], out[i]), SameGens(pg, q), os[i].kind = "photo", os[i].gen # 0,
         Gens(pg, os), ActiveJob(pg, os), PhotoPage(pg, q, st, os[i], out[i])
  PROVE ActiveJob(q, out)
<1>1. /\ DOMAIN out = DOMAIN os /\ q.importGeneration = pg.importGeneration
      /\ out[i].kind = "photo" /\ out[i].gen = os[i].gen /\ \A k \in DOMAIN os : k # i => out[k] = os[k]
  BY DEF OnlyOp, SameGens, SameClaim
<1>2. CASE os[i].gen = pg.importGeneration
  <2>1. \A k \in DOMAIN os : k # i => os[k].gen # pg.importGeneration
    BY <1>2 DEF Gens
  <2>2. \A k \in DOMAIN out : LoadsPhoto(q, out[k]) => k = i
    BY <1>1, <2>1 DEF LoadsPhoto
  <2>3. q.activeImportJobId # 0 => LoadsPhoto(q, out[i]) /\ out[i].pc # "attaching"
    BY <1>1, <1>2 DEF LoadsPhoto, PhotoPage
  <2>4. \A k \in DOMAIN out : LoadsPhoto(q, out[k]) /\ out[k].pc \in {"polling", "fetching"}
                                => out[k].job = q.activeImportJobId
    BY <1>2, <2>2 DEF PhotoPage
  <2>5. \A k \in DOMAIN out : out[k].pc = "dropping" => out[k].gen # q.importGeneration
    BY <1>1, <1>2, <2>1 DEF PhotoPage
  <2>6. \A k \in DOMAIN out : LoadsPhoto(q, out[k]) => q.session = 0
    BY <1>2, <2>2 DEF PhotoPage, LoadsPhoto
  <2> QED BY <1>1, <2>3, <2>4, <2>5, <2>6 DEF ActiveJob
<1>3. CASE os[i].gen # pg.importGeneration
  <2>1. q = pg
    BY <1>3 DEF PhotoPage
  <2>2. \A k \in DOMAIN os : LoadsPhoto(q, out[k]) <=> LoadsPhoto(pg, os[k]) /\ k # i
    BY <1>1, <1>3, <2>1 DEF LoadsPhoto
  <2>3. ~LoadsPhoto(pg, os[i])
    BY <1>3 DEF LoadsPhoto
  <2>4. \A k \in DOMAIN out : LoadsPhoto(q, out[k]) => out[k] = os[k]
    BY <1>1, <2>2
  <2>5. \A k \in DOMAIN os : LoadsPhoto(pg, os[k]) => LoadsPhoto(q, out[k]) /\ out[k] = os[k]
    BY <1>1, <2>2, <2>3
  <2>6. \A k \in DOMAIN out : out[k].pc = "dropping" => out[k].gen # q.importGeneration
    BY <1>1, <1>3, <2>1 DEF ActiveJob
  <2>7. q.activeImportJobId # 0 => \E k \in DOMAIN out : LoadsPhoto(q, out[k]) /\ out[k].pc # "attaching"
    BY <1>1, <2>1, <2>5 DEF ActiveJob
  <2> QED BY <1>1, <2>1, <2>2, <2>4, <2>6, <2>7 DEF ActiveJob
<1> QED BY <1>2, <1>3

\* The jobs that run are still somebody's.
PhotoJobs(pg, q, o, x, js, js2) ==
  \A j \in DOMAIN js2 : js2[j].state = "running" =>
     \/ Launches(q, x, j)
     \/ j \in DOMAIN js /\ js[j].state = "running" /\ ~Launches(pg, o, j)

LEMMA PhotoGood ==
  ASSUME NEW pg, NEW q \in PageRecord, NEW os, NEW out, NEW st, NEW js, NEW js2, NEW s, NEW m,
         Good(pg, os, st, js, s, m), NEW i \in DOMAIN os, OnlyOp(os, out, i),
         SameClaim(os[i], out[i]), SameGens(pg, q), os[i].kind = "photo", os[i].gen # 0,
         out[i].server = os[i].server, Shape(out[i]), Serving(out[i]),
         Len(js) \in Nat, Len(js2) \in Nat, Len(js) <= Len(js2),
         OpFits(out[i], s, m, Len(js2)), PageFits(q, s, m, Len(js2)),
         PhotoPage(pg, q, st, os[i], out[i]), PhotoJobs(pg, q, os[i], out[i], js, js2),
         StillHas(st, js, st, js2)
  PROVE Good(q, out, st, js2, s, m)
<1>1. /\ pg \in PageRecord /\ os \in Seq(OpRecord) /\ Claims(pg, os) /\ Running(pg, os, js)
      /\ Shown(pg, os, st, js) /\ Answers(pg, os, st, js) /\ Gens(pg, os) /\ ActiveJob(pg, os)
      /\ \A k \in DOMAIN os : os[k] \in OpRecord /\ OpFits(os[k], s, m, Len(js))
  BY DEF Good, Claims
<1>2. /\ out \in Seq(OpRecord) /\ DOMAIN out = DOMAIN os /\ \A k \in DOMAIN os : k # i => out[k] = os[k]
  BY DEF OnlyOp
<1>3. Claims(q, out)
  <2>1. ActiveJob(q, out)
    BY <1>1, PhotoActiveJob
  <2>2. ~Waits(out[i]) /\ os[i].pc # "saving"
    <3>1. Shape(os[i])
      BY <1>1 DEF Claims, Shapes
    <3> QED BY <3>1 DEF Waits, SameClaim, Shape, Asked
  <2> QED BY <1>1, <2>1, <2>2, StepClaims
<1>4. Running(q, out, js2)
  <2> SUFFICES ASSUME NEW j \in DOMAIN js2, js2[j].state = "running"
               PROVE \E k \in DOMAIN out : Launches(q, out[k], j)
    BY DEF Running
  <2>1. CASE Launches(q, out[i], j)
    BY <1>2, <2>1
  <2>2. CASE j \in DOMAIN js /\ js[j].state = "running" /\ ~Launches(pg, os[i], j)
    <3>1. PICK k \in DOMAIN os : Launches(pg, os[k], j)
      BY <1>1, <2>2 DEF Running
    <3>2. k # i /\ out[k] = os[k]
      BY <1>2, <2>2, <3>1
    <3> QED BY <1>2, <3>1, <3>2 DEF Launches, SameGens
  <2> QED BY <2>1, <2>2 DEF PhotoJobs
<1>5. os[i].server \notin InBackend /\ os[i].server # "cleared late" /\ os[i].pgen = 0
  <2>1. Serving(os[i]) /\ Shape(os[i])
    BY <1>1 DEF Claims, Shapes
  <2> QED BY <2>1 DEF Serving, Shape, InBackend, None, Servers
<1>6. StillHolds(pg, os, q, out)
  <2>1. \A st0, js0 : HoldsIn(pg, os[i], st0, js0) => HoldsIn(q, out[i], st0, js0)
    BY <1>5 DEF HoldsIn, Stale, PhotoPage, SameClaim, InBackend
  <2>2. \A k \in DOMAIN os : \A st0, js0 : k # i /\ HoldsIn(pg, os[k], st0, js0) => HoldsIn(q, out[k], st0, js0)
    BY <1>2 DEF HoldsIn, Stale, SameGens
  <2> QED BY <1>2, <2>1, <2>2 DEF StillHolds
<1>7. StillAnswers(pg, os, q, out)
  BY <1>2, <1>5 DEF StillAnswers, Aborted, SameGens, SameClaim
<1>8. Answers(q, out, st, js2)
  BY <1>1, <1>6, <1>7, AnswersKept
<1>9. Shown(q, out, st, js2)
  <2>1. CASE q.session \in {pg.session, 0}
    BY <1>1, <1>6, <2>1, ShownKept
  <2>2. CASE q.session = st.session
    BY <2>2 DEF Shown
  <2> QED BY <2>1, <2>2 DEF PhotoPage
<1>10. \A k \in DOMAIN out : OpFits(out[k], s, m, Len(js2))
  <2> TAKE k \in DOMAIN out
  <2>1. CASE k = i
    BY <2>1
  <2>2. CASE k # i
    <3>1. out[k] = os[k] /\ OpFits(os[k], s, m, Len(js)) /\ os[k] \in OpRecord
      BY <1>1, <1>2, <2>2
    <3>2. os[k].job \in Nat
      BY <3>1 DEF OpRecord
    <3> QED BY <3>1, <3>2 DEF OpFits
  <2> QED BY <2>1, <2>2
<1> QED BY <1>2, <1>3, <1>4, <1>8, <1>9, <1>10 DEF Good

LEMMA PhotoKeeps ==
  ASSUME DocumentInv, NEW i \in DOMAIN ops, NEW pc \in PCs, ops[i].kind = "photo",
         ops[i].pc \in Loading \cup {"dropping"},
         pc \in (Loading \ {"cancelling"}) \cup {"dropping", "done"}, pc \in HasJob => ops[i].job # 0,
         pc \in {"preparing", "creating"} => ops[i].job = 0,
         ops' = [ops EXCEPT ![i].pc = pc], page' \in PageRecord, SameGens(page, page'),
         PageFits(page', sessions, made, Len(jobs)),
         \A x : Moves(ops[i], x, pc) => /\ PhotoPage(page, page', store, ops[i], x)
                                        /\ PhotoJobs(page, page', ops[i], x, jobs, jobs'),
         jobs' \in Seq(JobRecord), Len(jobs') = Len(jobs), \A j \in DOMAIN jobs' : jobs'[j].session <= sessions,
         StillHas(store, jobs, store, jobs'),
         UNCHANGED <<store, files, sessions, made, early, settled>>, left' \in Budget
  PROVE DocumentInv'
<1>1. /\ ops[i] \in OpRecord /\ Shape(ops[i]) /\ Serving(ops[i]) /\ OpFits(ops[i], sessions, made, Len(jobs))
      /\ Good(page, ops, store, jobs, sessions, made) /\ ops \in Seq(OpRecord) /\ Len(jobs) \in Nat
  BY Known
<1>2. OnlyOp(ops, ops', i) /\ Moves(ops[i], ops'[i], pc)
  BY <1>1, Moved
<1> DEFINE x == ops'[i]
<1> HIDE DEF x
<1>3. Moves(ops[i], x, pc)
  BY <1>2 DEF x
<1>4. ops[i].gen # 0 /\ ops[i].pgen = 0 /\ x.pc = pc /\ x.kind = "photo" /\ x.gen # 0 /\ x.pgen = 0 /\ x.job = ops[i].job
  <2>1. ops[i].gen # 0 /\ ops[i].pgen = 0
    BY <1>1 DEF Shape
  <2> QED BY <1>3, <2>1 DEF Moves, SameClaim
<1>5. Shape(x)
  BY <1>4 DEF Shape, Asked, Loading, Begun, Saves, HasJob
<1>6. ops[i].server # "cleared late"
  BY <1>1 DEF Serving
<1>7. Serving(x) /\ OpFits(x, sessions, made, Len(jobs))
  <2>1. pc \notin {"starting", "relinking", "showing"}
    BY DEF Loading
  <2> QED BY <1>1, <1>3, <1>6, <2>1, MovedServes, MovedFits
<1>8. Good(page', ops', store, jobs', sessions, made)
  <2>1. SameClaim(ops[i], x) /\ x.server = ops[i].server
    BY <1>3 DEF Moves
  <2>2. PhotoPage(page, page', store, ops[i], x) /\ PhotoJobs(page, page', ops[i], x, jobs, jobs')
    BY <1>3
  <2>3. Len(jobs') \in Nat /\ Len(jobs) <= Len(jobs') /\ Len(jobs') = Len(jobs) /\ ops'[i] = x
    BY <1>1 DEF x
  <2>4. /\ OpFits(ops'[i], sessions, made, Len(jobs')) /\ PageFits(page', sessions, made, Len(jobs'))
        /\ Shape(ops'[i]) /\ Serving(ops'[i])
    BY <1>5, <1>7, <2>3
  <2> QED BY <1>1, <1>2, <1>4, <2>1, <2>2, <2>3, <2>4, PhotoGood
<1>9. Backend'
  BY <1>2, BackendJobs
<1>10. ops'[i].pc # "new" /\ ops[i].pc \in Past
  BY <1>4 DEF x, Loading, Past
<1> QED BY <1>2, <1>8, <1>9, <1>10, PastKeeps

\* What the page is after a photo's open ended.
LEMMA FailedPage ==
  ASSUME DocumentInv, NEW i \in DOMAIN ops, page' = IF Stale(page, ops[i]) THEN page ELSE finishGradeOpen(Retire(page))
  PROVE /\ page' \in PageRecord /\ SameGens(page, page') /\ PageFits(page', sessions, made, Len(jobs))
        /\ IF Stale(page, ops[i]) THEN page' = page ELSE page'.session = 0 /\ page'.activeImportJobId = 0
<1>1. page \in PageRecord /\ PageFits(page, sessions, made, Len(jobs)) /\ sessions \in Nat /\ Len(jobs) \in Nat
  BY Known
<1>2. CASE Stale(page, ops[i])
  BY <1>1, <1>2 DEF SameGens
<1>3. CASE ~Stale(page, ops[i])
  <2>1. page' = [page EXCEPT !.session = 0, !.doc = None, !.edits = {}, !.dirty = FALSE,
                             !.gradeOpen = 0, !.importInProgress = FALSE, !.activeImportJobId = 0]
    BY <1>1, <1>3 DEF finishGradeOpen, Retire, PageRecord
  <2>a. page' \in PageRecord
    <3> DEFINE q == [page EXCEPT !.session = 0, !.doc = None, !.edits = {}, !.dirty = FALSE,
                                 !.gradeOpen = 0, !.importInProgress = FALSE, !.activeImportJobId = 0]
    <3>1. page' = q
      BY <2>1
    <3>2. \A p \in PageRecord : [p EXCEPT !.session = 0, !.doc = None, !.edits = {}, !.dirty = FALSE,
              !.gradeOpen = 0, !.importInProgress = FALSE, !.activeImportJobId = 0] \in PageRecord
      BY DEF PageRecord
    <3> QED BY <1>1, <3>1, <3>2
  <2>b. SameGens(page, page')
    BY <1>1, <2>1 DEF PageRecord, SameGens
  <2>c. page'.session = 0 /\ page'.edits = {} /\ page'.activeImportJobId = 0 /\ page'.gradeOpen = 0
    BY <1>1, <2>1 DEF PageRecord
  <2>2. /\ page' \in PageRecord /\ SameGens(page, page') /\ page'.session = 0 /\ page'.edits = {}
        /\ page'.activeImportJobId = 0 /\ page'.gradeOpen = 0 /\ page'.importGeneration \in Nat
    BY <2>a, <2>b, <2>c DEF PageRecord
  <2> QED BY <1>1, <1>3, <2>2 DEF PageFits
<1> QED BY <1>2, <1>3

\* Jobs and the newest request's page, when an open of a photo goes to "done".
LEMMA FailsKeeps ==
  ASSUME DocumentInv, NEW i \in DOMAIN ops, ops[i].kind = "photo", ops[i].pc \in Loading, PhotoFails(i),
         UNCHANGED <<store, jobs, files, sessions, made, early, settled>>, left' \in Budget,
         \A j \in DOMAIN jobs : jobs[j].state = "running" /\ Launches(page, ops[i], j) => Stale(page, ops[i])
  PROVE DocumentInv'
<1>1. /\ page' \in PageRecord /\ SameGens(page, page') /\ PageFits(page', sessions, made, Len(jobs))
      /\ IF Stale(page, ops[i]) THEN page' = page ELSE page'.session = 0 /\ page'.activeImportJobId = 0
  BY FailedPage DEF PhotoFails
<1>2. ops' = [ops EXCEPT ![i].pc = "done"] /\ "done" \in PCs
  BY DEF PhotoFails, Done, Goto, PCs
<1>3. jobs' \in Seq(JobRecord) /\ Len(jobs') = Len(jobs) /\ \A j \in DOMAIN jobs' : jobs'[j].session <= sessions
  BY Known DEF Backend
<1>4. ASSUME NEW x, Moves(ops[i], x, "done")
      PROVE PhotoPage(page, page', store, ops[i], x) /\ PhotoJobs(page, page', ops[i], x, jobs, jobs')
  <2>1. x.pc = "done" /\ x.job = ops[i].job /\ x.gen = ops[i].gen /\ x.kind = "photo"
    BY <1>4 DEF Moves, SameClaim
  <2>2. PhotoPage(page, page', store, ops[i], x)
    BY <1>1, <2>1 DEF PhotoPage, Stale, Loading
  <2>3. ASSUME NEW j \in DOMAIN jobs', jobs'[j].state = "running"
        PROVE \/ Launches(page', x, j)
              \/ j \in DOMAIN jobs /\ jobs[j].state = "running" /\ ~Launches(page, ops[i], j)
    <3>1. CASE Launches(page, ops[i], j)
      <4>1. Stale(page, ops[i])
        BY <2>3, <3>1
      <4> QED BY <1>1, <2>1, <3>1, <4>1 DEF Launches, Stale, Launched
    <3>2. CASE ~Launches(page, ops[i], j)
      BY <2>3, <3>2
    <3> QED BY <3>1, <3>2
  <2> QED BY <2>2, <2>3 DEF PhotoJobs
<1>5. "done" \in (Loading \ {"cancelling"}) \cup {"dropping", "done"} /\ "done" \notin HasJob
  BY DEF HasJob
<1>6. StillHas(store, jobs, store, jobs')
  BY HasStill
<1> QED BY <1>1, <1>2, <1>3, <1>4, <1>5, <1>6, PhotoKeeps

\* An overtaken open of a photo ends, or drops the job it has been given.
LEMMA StaleKeeps ==
  ASSUME DocumentInv, NEW i \in DOMAIN ops, NEW pc \in {"done", "dropping"}, ops[i].kind = "photo",
         ops[i].pc \in Loading \cup {"dropping"}, pc = "dropping" => ops[i].job # 0,
         Stale(page, ops[i]), Goto(i, pc),
         jobs' \in Seq(JobRecord), Len(jobs') = Len(jobs), DOMAIN jobs' = DOMAIN jobs,
         \A j \in DOMAIN jobs' : /\ jobs'[j].session <= sessions
                                 /\ jobs'[j].state = "running" => jobs[j].state = "running",
         StillHas(store, jobs, store, jobs'),
         UNCHANGED <<page, store, files, sessions, made, early, settled>>, left' \in Budget
  PROVE DocumentInv'
<1>1. page' = page /\ page' \in PageRecord /\ SameGens(page, page') /\ PageFits(page', sessions, made, Len(jobs))
  BY Known DEF SameGens
<1>2. ASSUME NEW x, Moves(ops[i], x, pc)
      PROVE PhotoPage(page, page', store, ops[i], x) /\ PhotoJobs(page, page', ops[i], x, jobs, jobs')
  <2>1. x.pc = pc /\ x.job = ops[i].job /\ x.gen = ops[i].gen /\ x.kind = "photo"
    BY <1>2 DEF Moves, SameClaim
  <2>2. PhotoPage(page, page', store, ops[i], x)
    BY <1>1, <2>1 DEF PhotoPage, Stale
  <2>3. \A j : Launches(page, ops[i], j) => Launches(page', x, j)
    BY <1>1, <2>1 DEF Launches, Stale, Launched, HasJob
  <2> QED BY <2>2, <2>3 DEF PhotoJobs
<1>3. pc \in PCs /\ pc \in (Loading \ {"cancelling"}) \cup {"dropping", "done"} /\ (pc \in HasJob => ops[i].job # 0)
  BY DEF PCs, Working, HasJob
<1> QED BY <1>1, <1>2, <1>3, PhotoKeeps DEF Goto

\* The newest open of a photo goes on.
LEMMA NewestKeeps ==
  ASSUME DocumentInv, NEW i \in DOMAIN ops, NEW pc \in (Loading \ {"cancelling"}) \cup {"done"},
         ops[i].kind = "photo", ops[i].pc \in Loading, pc \in HasJob => ops[i].job # 0,
         pc \in {"preparing", "creating"} => ops[i].job = 0, ~Stale(page, ops[i]), Goto(i, pc),
         page' \in PageRecord, SameGens(page, page'), PageFits(page', sessions, made, Len(jobs)),
         page'.session = page.session,
         page'.activeImportJobId # 0 => pc \in Loading \ {"attaching"},
         pc \in {"polling", "fetching"} => page'.activeImportJobId = ops[i].job,
         \A j \in DOMAIN jobs : jobs[j].state = "running" /\ Launches(page, ops[i], j) => pc \in {"created", "polling"},
         UNCHANGED <<store, jobs, files, sessions, made, early, settled>>, left' \in Budget
  PROVE DocumentInv'
<1>1. ops[i].gen = page.importGeneration /\ LoadsPhoto(page, ops[i]) /\ page.session = 0
  <2>1. LoadsPhoto(page, ops[i])
    BY DEF Stale, LoadsPhoto
  <2> QED BY <2>1, Known DEF Claims, ActiveJob, Stale
<1>2. ASSUME NEW x, Moves(ops[i], x, pc)
      PROVE PhotoPage(page, page', store, ops[i], x) /\ PhotoJobs(page, page', ops[i], x, jobs, jobs')
  <2>1. x.pc = pc /\ x.job = ops[i].job /\ x.gen = ops[i].gen /\ x.kind = "photo"
    BY <1>2 DEF Moves, SameClaim
  <2>2. PhotoPage(page, page', store, ops[i], x)
    BY <1>1, <2>1 DEF PhotoPage, Loading
  <2>3. ASSUME NEW j \in DOMAIN jobs', jobs'[j].state = "running"
        PROVE \/ Launches(page', x, j)
              \/ j \in DOMAIN jobs /\ jobs[j].state = "running" /\ ~Launches(page, ops[i], j)
    BY <2>1, <2>3 DEF Launches, Launched, HasJob
  <2> QED BY <2>2, <2>3 DEF PhotoJobs
<1>3. pc \in PCs /\ pc \in (Loading \ {"cancelling"}) \cup {"dropping", "done"}
  BY DEF PCs, Working, Loading
<1>4. jobs' \in Seq(JobRecord) /\ Len(jobs') = Len(jobs) /\ \A j \in DOMAIN jobs' : jobs'[j].session <= sessions
  BY Known DEF Backend
<1>5. StillHas(store, jobs, store, jobs')
  BY HasStill
<1> QED BY <1>2, <1>3, <1>4, <1>5, PhotoKeeps DEF Goto

\* What the pc of a photo's open says about it.
LEMMA PhotoOperation ==
  ASSUME DocumentInv, NEW i \in DOMAIN ops,
         ops[i].pc \in {"preparing", "creating", "created", "refused", "dropping", "polling", "fetching", "attaching"}
  PROVE /\ ops[i].kind = "photo" /\ ops[i].pc \in Loading \cup {"dropping"} /\ ops[i].gen # 0
        /\ ops[i].pc # "dropping" => ops[i].pc \in Loading
        /\ ops[i].pc \in HasJob => ops[i].job # 0
        /\ ops[i].pc = "dropping" => Stale(page, ops[i])
        /\ ops[i].pc \notin Launched => \A j : ~Launches(page, ops[i], j)
        /\ page \in PageRecord /\ SameGens(page, page) /\ PageFits(page, sessions, made, Len(jobs))
        /\ jobs \in Seq(JobRecord) /\ \A j \in DOMAIN jobs : jobs[j].session <= sessions
<1>1. Shape(ops[i]) /\ ActiveJob(page, ops)
  BY Known DEF Claims
<1>2. jobs \in Seq(JobRecord) /\ \A j \in DOMAIN jobs : jobs[j].session <= sessions
  BY Known DEF Backend
<1>3. page \in PageRecord /\ PageFits(page, sessions, made, Len(jobs))
  BY Known
<1>4. ops[i].pc \in (Loading \cup {"dropping"}) \ {"cancelling"}
  BY DEF Loading
<1> QED BY <1>1, <1>2, <1>3, <1>4 DEF Shape, ActiveJob, Stale, Launches, SameGens

LEMMA PreparedKeeps ==
  ASSUME DocumentInv, NEW i \in DOMAIN ops, Prepared(i)
  PROVE DocumentInv'
<1>1. ops[i].pc = "preparing" /\ UNCHANGED <<store, jobs, files, sessions, made, early, settled>>
  BY DEF Prepared
<1>2. /\ ops[i].kind = "photo" /\ ops[i].pc \in Loading /\ \A j : ~Launches(page, ops[i], j)
      /\ page \in PageRecord /\ SameGens(page, page) /\ PageFits(page, sessions, made, Len(jobs))
      /\ jobs \in Seq(JobRecord) /\ \A j \in DOMAIN jobs : jobs[j].session <= sessions
  BY <1>1, PhotoOperation DEF Loading, Launched, HasJob
<1>3. CASE UNCHANGED <<page, left>> /\ Stale(page, ops[i]) /\ Done(i)
  BY <1>1, <1>2, <1>3, StaleKeeps, HasStill, Known DEF Done
<1>4. CASE UNCHANGED <<page, left>> /\ ~Stale(page, ops[i]) /\ Goto(i, "creating")
  <2>1. /\ "creating" \in (Loading \ {"cancelling"}) \cup {"done"} /\ "creating" \notin HasJob
        /\ ops[i].job = 0
    BY <1>1, Known DEF Loading, HasJob, Shape
  <2>2. "creating" \in Loading \ {"attaching"}
    BY DEF Loading
  <2> QED BY <1>1, <1>2, <1>4, <2>1, <2>2, NewestKeeps, Known
<1>5. CASE Spend("faults") /\ PhotoFails(i)
  <2>1. left' \in Budget
    BY <1>5, Spending, Known DEF Rests
  <2> QED BY <1>1, <1>2, <1>5, <2>1, FailsKeeps
<1> QED BY <1>3, <1>4, <1>5 DEF Prepared

LEMMA RefusedKeeps ==
  ASSUME DocumentInv, NEW i \in DOMAIN ops, Refused(i)
  PROVE DocumentInv'
<1>1. /\ ops[i].pc = "refused" /\ UNCHANGED <<store, jobs, files, sessions, made, early, settled>>
      /\ PhotoFails(i) /\ left' \in Budget
  BY Known DEF Refused
<1>2. ops[i].kind = "photo" /\ ops[i].pc \in Loading /\ \A j : ~Launches(page, ops[i], j)
  BY <1>1, PhotoOperation DEF Loading, Launched, HasJob
<1> QED BY <1>1, <1>2, FailsKeeps

LEMMA DroppedKeeps ==
  ASSUME DocumentInv, NEW i \in DOMAIN ops, Dropped(i)
  PROVE DocumentInv'
<1>1. /\ ops[i].pc = "dropping" /\ UNCHANGED <<page, store, files, sessions, made, early, settled>>
      /\ Goto(i, "done") /\ left' \in Budget /\ jobs' = CancelJob(ops[i].job)
  BY Known DEF Dropped, Done
<1>2. ops[i].kind = "photo" /\ ops[i].pc \in Loading \cup {"dropping"} /\ Stale(page, ops[i])
  BY <1>1, PhotoOperation
<1>3. ops[i].job \in Nat
  BY Known DEF OpRecord
<1>4. /\ jobs' \in Seq(JobRecord) /\ Len(jobs') = Len(jobs) /\ DOMAIN jobs' = DOMAIN jobs
      /\ \A j \in DOMAIN jobs' : /\ jobs'[j].session <= sessions
                                 /\ jobs'[j].state = "running" => jobs[j].state = "running"
      /\ StillHas(store, jobs, store, jobs')
  BY <1>1, <1>3, CancelledJob
<1> QED BY <1>1, <1>2, <1>4, StaleKeeps

LEMMA CreatedKeeps ==
  ASSUME DocumentInv, NEW i \in DOMAIN ops, Created(i)
  PROVE DocumentInv'
<1>1. /\ ops[i].pc = "created" /\ UNCHANGED <<store, jobs, files, sessions, made, early, settled>>
      /\ left' \in Budget
  BY Known DEF Created
<1>2. /\ ops[i].kind = "photo" /\ ops[i].pc \in Loading /\ ops[i].job # 0
      /\ page \in PageRecord /\ PageFits(page, sessions, made, Len(jobs))
      /\ jobs \in Seq(JobRecord) /\ \A j \in DOMAIN jobs : jobs[j].session <= sessions
  BY <1>1, PhotoOperation DEF Loading, HasJob
<1>3. CASE Stale(page, ops[i])
  <2>1. page' = page /\ Goto(i, "dropping")
    BY <1>3 DEF Created
  <2> QED BY <1>1, <1>2, <1>3, <2>1, StaleKeeps, HasStill
<1>4. CASE ~Stale(page, ops[i])
  <2>1. page' = [page EXCEPT !.activeImportJobId = ops[i].job] /\ Goto(i, "polling")
    BY <1>4 DEF Created
  <2>2. ops[i].job \in Nat /\ ops[i].job <= Len(jobs)
    BY Known DEF OpRecord, OpFits
  <2>3. page' \in PageRecord
    BY <1>2, <2>1, <2>2 DEF PageRecord
  <2>4. /\ SameGens(page, page') /\ page'.session = page.session /\ page'.activeImportJobId = ops[i].job
        /\ page'.edits = page.edits /\ page'.gradeOpen = page.gradeOpen
    BY <1>2, <2>1 DEF PageRecord, SameGens
  <2>5. PageFits(page', sessions, made, Len(jobs))
    BY <1>2, <2>2, <2>4 DEF PageFits, SameGens
  <2>6. "polling" \in (Loading \ {"cancelling"}) \cup {"done"} /\ "polling" \in Loading \ {"attaching"}
    BY DEF Loading
  <2> QED BY <1>1, <1>2, <1>4, <2>1, <2>3, <2>4, <2>5, <2>6, NewestKeeps
<1> QED BY <1>3, <1>4

\* A poll or a fetch of the newest request is for the job the page knows.
LEMMA OvertakenIsStale ==
  ASSUME DocumentInv, NEW i \in DOMAIN ops, ops[i].pc \in {"polling", "fetching"}, Overtaken(i)
  PROVE Stale(page, ops[i])
<1>1. ActiveJob(page, ops) /\ ops[i].kind = "photo" /\ ops[i].pc \in Loading
  BY PhotoOperation, Known DEF Claims, Loading
<1> QED BY <1>1 DEF ActiveJob, LoadsPhoto, Overtaken, Stale

\* The end of a photo's open that shows nothing.
LEMMA FinishedPage ==
  ASSUME DocumentInv, page' = finishGradeOpen(page)
  PROVE /\ page' \in PageRecord /\ SameGens(page, page') /\ PageFits(page', sessions, made, Len(jobs))
        /\ page'.session = page.session /\ page'.activeImportJobId = 0
        /\ page'.edits = page.edits /\ page'.dirty = page.dirty /\ page'.grade = page.grade /\ page'.gradeOpen = 0
<1>1. page \in PageRecord /\ PageFits(page, sessions, made, Len(jobs)) /\ sessions \in Nat /\ Len(jobs) \in Nat
  BY Known
<1>2. page' = [page EXCEPT !.gradeOpen = 0, !.importInProgress = FALSE, !.activeImportJobId = 0]
  BY DEF finishGradeOpen
<1>3. page' \in PageRecord
  <2>1. \A p \in PageRecord : [p EXCEPT !.gradeOpen = 0, !.importInProgress = FALSE, !.activeImportJobId = 0]
                               \in PageRecord
    BY DEF PageRecord
  <2> QED BY <1>1, <1>2, <2>1
<1>4. /\ SameGens(page, page') /\ page'.session = page.session /\ page'.edits = page.edits
      /\ page'.dirty = page.dirty /\ page'.grade = page.grade
      /\ page'.activeImportJobId = 0 /\ page'.gradeOpen = 0
  BY <1>1, <1>2 DEF PageRecord, SameGens
<1>5. page'.importGeneration \in Nat
  BY <1>3 DEF PageRecord
<1> QED BY <1>1, <1>3, <1>4, <1>5 DEF PageFits

LEMMA PolledKeeps ==
  ASSUME DocumentInv, NEW i \in DOMAIN ops, Polled(i)
  PROVE DocumentInv'
<1> DEFINE state == jobs[ops[i].job].state
<1>1. /\ ops[i].pc = "polling" /\ UNCHANGED <<store, jobs, files, sessions, made, early, settled>>
      /\ left' \in Budget
  BY Known DEF Polled
<1>2. /\ ops[i].kind = "photo" /\ ops[i].pc \in Loading /\ ops[i].job # 0
      /\ page \in PageRecord /\ SameGens(page, page) /\ PageFits(page, sessions, made, Len(jobs))
      /\ jobs \in Seq(JobRecord) /\ \A j \in DOMAIN jobs : jobs[j].session <= sessions
  BY <1>1, PhotoOperation DEF Loading, HasJob
<1>3. state # "running" => \A j \in DOMAIN jobs : ~(jobs[j].state = "running" /\ Launches(page, ops[i], j))
  BY DEF Launches
<1>4. CASE Overtaken(i) /\ Done(i) /\ UNCHANGED page
  <2>1. Stale(page, ops[i])
    BY <1>1, <1>4, OvertakenIsStale
  <2> QED BY <1>1, <1>2, <1>4, <2>1, StaleKeeps, HasStill DEF Done
<1>5. CASE ~Overtaken(i) /\ state = "ready" /\ Goto(i, "fetching") /\ UNCHANGED page
  <2>1. ~Stale(page, ops[i]) /\ page.activeImportJobId = ops[i].job
    BY <1>5 DEF Overtaken
  <2>2. "fetching" \in (Loading \ {"cancelling"}) \cup {"done"} /\ "fetching" \in Loading \ {"attaching"}
    BY DEF Loading
  <2>3. \A j \in DOMAIN jobs : ~(jobs[j].state = "running" /\ Launches(page, ops[i], j))
    BY <1>3, <1>5
  <2>4. page' = page /\ Goto(i, "fetching")
    BY <1>5
  <2> HIDE DEF state
  <2> QED BY <1>1, <1>2, <2>1, <2>2, <2>3, <2>4, NewestKeeps
<1>6. CASE ~Overtaken(i) /\ state = "error" /\ PhotoFails(i)
  BY <1>1, <1>2, <1>3, <1>6, FailsKeeps
<1>7. CASE ~Overtaken(i) /\ state = "cancelled" /\ page' = finishGradeOpen(page) /\ Done(i)
  <2>1. ~Stale(page, ops[i])
    BY <1>7 DEF Overtaken
  <2>2. /\ page' \in PageRecord /\ SameGens(page, page') /\ PageFits(page', sessions, made, Len(jobs))
        /\ page'.session = page.session /\ page'.activeImportJobId = 0
    BY <1>7, FinishedPage
  <2>3. \A j \in DOMAIN jobs : ~(jobs[j].state = "running" /\ Launches(page, ops[i], j))
    BY <1>3, <1>7
  <2>4. Goto(i, "done") /\ "done" \in (Loading \ {"cancelling"}) \cup {"done"} /\ "done" \notin HasJob
    BY <1>7 DEF Done, HasJob
  <2> HIDE DEF state
  <2> QED BY <1>1, <1>2, <2>1, <2>2, <2>3, <2>4, NewestKeeps
<1> QED BY <1>4, <1>5, <1>6, <1>7 DEF Polled

LEMMA FetchedKeeps ==
  ASSUME DocumentInv, NEW i \in DOMAIN ops, Fetched(i)
  PROVE DocumentInv'
<1>1. /\ ops[i].pc = "fetching" /\ UNCHANGED <<store, jobs, files, sessions, made, early, settled>>
      /\ left' \in Budget
  BY Known DEF Fetched
<1>2. /\ ops[i].kind = "photo" /\ ops[i].pc \in Loading /\ ops[i].job # 0
      /\ page \in PageRecord /\ PageFits(page, sessions, made, Len(jobs))
      /\ jobs \in Seq(JobRecord) /\ \A j \in DOMAIN jobs : jobs[j].session <= sessions
  BY <1>1, PhotoOperation DEF Loading, HasJob
<1>3. \A j : Launches(page, ops[i], j) => Stale(page, ops[i])
  BY <1>1 DEF Launches, Stale
<1>4. CASE Overtaken(i)
  <2>1. Stale(page, ops[i])
    BY <1>1, <1>4, OvertakenIsStale
  <2>2. page' = page /\ Goto(i, "done")
    BY <1>4 DEF Fetched, Done
  <2> QED BY <1>1, <1>2, <2>1, <2>2, StaleKeeps, HasStill
<1>5. CASE ~Overtaken(i) /\ store.session = jobs[ops[i].job].session
  <2>1. page' = [page EXCEPT !.activeImportJobId = 0, !.importInProgress = FALSE] /\ Goto(i, "attaching")
    BY <1>5 DEF Fetched
  <2>2. page' \in PageRecord
    BY <1>2, <2>1 DEF PageRecord
  <2>3. /\ SameGens(page, page') /\ page'.session = page.session /\ page'.activeImportJobId = 0
        /\ page'.edits = page.edits /\ page'.gradeOpen = page.gradeOpen
    BY <1>2, <2>1 DEF PageRecord, SameGens
  <2>4. PageFits(page', sessions, made, Len(jobs))
    BY <1>2, <2>3, Known DEF PageFits, SameGens
  <2>5. "attaching" \in (Loading \ {"cancelling"}) \cup {"done"} /\ ~Stale(page, ops[i])
    BY <1>5 DEF Loading, Overtaken
  <2> QED BY <1>1, <1>2, <1>3, <2>1, <2>2, <2>3, <2>4, <2>5, NewestKeeps
<1>6. CASE ~Overtaken(i) /\ store.session # jobs[ops[i].job].session
  <2>1. PhotoFails(i)
    BY <1>6 DEF Fetched
  <2> QED BY <1>1, <1>2, <1>3, <2>1, FailsKeeps
<1> QED BY <1>4, <1>5, <1>6

\* The page after a session was installed.
LEMMA Activated ==
  ASSUME NEW pg \in PageRecord, NEW session \in Nat, NEW content \in Content0, NEW path \in Projects \cup {None}
  PROVE LET q == activateDesktopSession(pg, session, content, path) IN
        /\ q \in PageRecord /\ SameGens(pg, q) /\ q.session = session /\ q.edits = content.edits /\ ~q.dirty
        /\ q.activeImportJobId = pg.activeImportJobId /\ q.gradeOpen = pg.gradeOpen
<1> DEFINE q == [pg EXCEPT !.session = session, !.doc = content.doc, !.edits = content.edits,
                           !.dirty = FALSE, !.path = path, !.grade = (path = None), !.importInProgress = FALSE]
<1>1. content.doc \in Docs \cup {None} /\ content.edits \in SUBSET Nat
  BY DEF Content0
<1>2. q \in PageRecord
  <2> DEFINE b == path = None
  <2>1. b \in BOOLEAN
    OBVIOUS
  <2>2. q = [pg EXCEPT !.session = session, !.doc = content.doc, !.edits = content.edits,
                       !.dirty = FALSE, !.path = path, !.grade = b, !.importInProgress = FALSE]
    OBVIOUS
  <2> HIDE DEF b, q
  <2> QED BY <1>1, <2>1, <2>2 DEF PageRecord
<1>3. /\ SameGens(pg, q) /\ q.session = session /\ q.edits = content.edits /\ ~q.dirty
      /\ q.activeImportJobId = pg.activeImportJobId /\ q.gradeOpen = pg.gradeOpen
  BY DEF PageRecord, SameGens
<1> QED BY <1>2, <1>3 DEF activateDesktopSession

LEMMA AttachedKeeps ==
  ASSUME DocumentInv, NEW i \in DOMAIN ops, Attached(i)
  PROVE DocumentInv'
<1> DEFINE session == jobs[ops[i].job].session
<1>1. /\ ops[i].pc = "attaching" /\ UNCHANGED <<store, jobs, files, sessions, made, early, settled>>
      /\ left' \in Budget
  BY Known DEF Attached
<1>2. /\ ops[i].kind = "photo" /\ ops[i].pc \in Loading /\ ops[i].job # 0 /\ ops[i].gen # 0
      /\ page \in PageRecord /\ SameGens(page, page) /\ PageFits(page, sessions, made, Len(jobs))
      /\ jobs \in Seq(JobRecord) /\ \A j \in DOMAIN jobs : jobs[j].session <= sessions
  BY <1>1, PhotoOperation DEF Loading, HasJob
<1>3. \A j : Launches(page, ops[i], j) => Stale(page, ops[i])
  BY <1>1 DEF Launches, Stale
<1>4. CASE Stale(page, ops[i])
  <2>1. page' = page /\ Goto(i, "done")
    BY <1>4 DEF Attached, Done
  <2> QED BY <1>1, <1>2, <1>4, <2>1, StaleKeeps, HasStill
<1>5. CASE ~Stale(page, ops[i]) /\ store.session # session
  <2>1. PhotoFails(i)
    BY <1>5 DEF Attached
  <2> QED BY <1>1, <1>2, <1>3, <2>1, FailsKeeps
<1>6. CASE ~Stale(page, ops[i]) /\ store.session = session
  <2> DEFINE content == [doc |-> ops[i].target, edits |-> {}]
  <2> DEFINE q == activateDesktopSession(page, session, content, None)
  <2> DEFINE o == ops[i]
  <2> DEFINE x == [o EXCEPT !.pc = "showing", !.session = session]
  <2>1. page' = q /\ ops' = [ops EXCEPT ![i].pc = "showing", ![i].session = session]
    BY <1>6 DEF Attached
  <2>2. o \in OpRecord /\ Shape(o) /\ Serving(o) /\ OpFits(o, sessions, made, Len(jobs)) /\ store \in StoreRecord
    BY Known
  <2>3. session \in Nat /\ session <= sessions
    BY <1>6, <2>2, Known DEF StoreRecord, Backend, StoreFits
  <2>4. content \in Content0 /\ None \in Projects \cup {None}
    BY <1>2, <2>2 DEF Serving, Content0, Docs
  <2>5. /\ q \in PageRecord /\ SameGens(page, q) /\ q.session = session /\ q.edits = {}
        /\ q.activeImportJobId = page.activeImportJobId /\ q.gradeOpen = page.gradeOpen
    <3>1. content.edits = {}
      OBVIOUS
    <3> HIDE DEF session, content
    <3> QED BY <1>2, <2>3, <2>4, <3>1, Activated
  <2> HIDE DEF q, session, content
  <2>6. page.activeImportJobId = 0
    BY <1>1, <1>2, <1>6, Known DEF Claims, ActiveJob, LoadsPhoto, Stale, Gens
  <2>7. page' \in PageRecord
    BY <2>1, <2>5
  <2>8. /\ page'.session = session /\ page'.edits = {} /\ page'.activeImportJobId = 0
        /\ page'.gradeOpen = page.gradeOpen /\ SameGens(page, page')
    BY <2>1, <2>5, <2>6
  <2>9. PageFits(page', sessions, made, Len(jobs))
    <3>1. page'.importGeneration \in Nat /\ Len(jobs) \in Nat
      BY <2>7, Known DEF PageRecord
    <3> QED BY <1>2, <2>3, <2>8, <3>1 DEF PageFits, SameGens
  <2>10. x \in OpRecord
    BY <2>2, <2>3 DEF OpRecord, PCs, Working
  <2>11. /\ SameClaim(o, x) /\ x.pc = "showing" /\ x.session = session /\ x.server = o.server /\ x.job = o.job
         /\ x.token = o.token /\ x.target = o.target /\ x.read = o.read /\ x.gen = o.gen /\ x.kind = "photo"
    BY <1>2, <2>2 DEF OpRecord, SameClaim
  <2>12. ops' = [ops EXCEPT ![i] = x]
    BY <2>1
  <2> HIDE DEF x, o
  <2>13. OnlyOp(ops, ops', i) /\ ops'[i] = x
    BY <2>10, <2>12, Known DEF OnlyOp
  <2>14. Shape(x)
    BY <1>2, <2>2, <2>11 DEF Shape, SameClaim, Asked, Loading, Begun, Saves, HasJob, o
  <2>15. Serving(x) /\ OpFits(x, sessions, made, Len(jobs))
    BY <1>2, <2>2, <2>3, <2>11 DEF Serving, OpFits, SameClaim, o
  <2>16. PhotoPage(page, page', store, o, x)
    BY <1>6, <2>8, <2>11 DEF PhotoPage, Loading, Stale, o
  <2>17. PhotoJobs(page, page', o, x, jobs, jobs)
    BY <1>3, <1>6 DEF PhotoJobs, o
  <2>18. Good(page', ops', store, jobs, sessions, made)
    <3>1. Len(jobs) \in Nat /\ Good(page, ops, store, jobs, sessions, made)
      BY Known
    <3> QED BY <1>2, <2>7, <2>8, <2>9, <2>11, <2>13, <2>14, <2>15, <2>16, <2>17, <3>1, HasStill, PhotoGood DEF o
  <2>19. Backend'
    BY <1>1, <1>2, <2>13, BackendJobs
  <2>20. ops[i].pc \in Past /\ ops'[i].pc # "new"
    BY <1>2, <2>11, <2>13 DEF Past
  <2> QED BY <1>1, <2>13, <2>18, <2>19, <2>20, PastKeeps
<1> QED BY <1>4, <1>5, <1>6

\* The jobs once a new one supersedes those that run.
LEMMA StartedJobs ==
  ASSUME DocumentInv, NEW doc \in Photos
  PROVE LET js == Append([j \in DOMAIN jobs |-> IF jobs[j].state = "running"
                                                THEN [jobs[j] EXCEPT !.state = "cancelled"] ELSE jobs[j]],
                         [doc |-> doc, state |-> "running", session |-> 0])
        IN /\ js \in Seq(JobRecord) /\ Len(js) = Len(jobs) + 1
           /\ \A j \in DOMAIN js : /\ js[j].session <= sessions
                                   /\ js[j].state = "running" => j = Len(jobs) + 1
           /\ StillHas(store, jobs, store, js)
<1> DEFINE J(j) == IF jobs[j].state = "running" THEN [jobs[j] EXCEPT !.state = "cancelled"] ELSE jobs[j]
<1> DEFINE old == [j \in 1..Len(jobs) |-> J(j)]
<1> DEFINE new == [doc |-> doc, state |-> "running", session |-> 0]
<1>1. /\ jobs \in Seq(JobRecord) /\ \A j \in DOMAIN jobs : jobs[j].session <= sessions
      /\ sessions \in Nat /\ Len(jobs) \in Nat
  BY Known DEF Backend
<1>2. \A j \in DOMAIN jobs : /\ J(j) \in JobRecord /\ J(j).state # "running" /\ J(j).session = jobs[j].session
                             /\ jobs[j].state = "ready" => J(j) = jobs[j]
  <2> TAKE j \in DOMAIN jobs
  <2>1. jobs[j] \in JobRecord
    BY <1>1
  <2> QED BY <2>1 DEF JobRecord
<1>3. new \in JobRecord /\ new.state = "running" /\ new.session = 0
  BY DEF JobRecord
<1> HIDE DEF J, new
<1>4. old \in Seq(JobRecord) /\ Len(old) = Len(jobs) /\ \A j \in 1..Len(jobs) : old[j] = J(j)
  BY <1>1, <1>2
<1> DEFINE js == Append(old, new)
<1> HIDE DEF old
<1>5. /\ js \in Seq(JobRecord) /\ Len(js) = Len(jobs) + 1
      /\ \A j \in DOMAIN js : js[j] = IF j = Len(jobs) + 1 THEN new ELSE J(j)
      /\ \A j \in DOMAIN js : j # Len(jobs) + 1 => j \in DOMAIN jobs
  BY <1>1, <1>3, <1>4
<1>6. \A j \in DOMAIN js : js[j].session <= sessions /\ (js[j].state = "running" => j = Len(jobs) + 1)
  <2> HIDE DEF js
  <2> QED BY <1>1, <1>2, <1>3, <1>5
<1>7. DOMAIN jobs = 1..Len(jobs)
  BY <1>1
<1>8. StillHas(store, jobs, store, js)
  <2> HIDE DEF js
  <2> SUFFICES ASSUME NEW j \in DOMAIN jobs, jobs[j].state = "ready"
               PROVE j \in DOMAIN js /\ js[j] = jobs[j]
    BY DEF StillHas
  <2>1. j \in DOMAIN js /\ j # Len(jobs) + 1
    BY <1>1, <1>5, <1>7
  <2> QED BY <1>2, <1>5, <2>1
<1> QED BY <1>5, <1>6, <1>7, <1>8 DEF js, old, J, new

LEMMA StartKeeps ==
  ASSUME DocumentInv, NEW i \in DOMAIN ops, start(i)
  PROVE DocumentInv'
<1>1. ops[i].pc = "creating" /\ UNCHANGED <<page, store, files, sessions, made, early, settled>>
  BY DEF start
<1>2. /\ ops[i].kind = "photo" /\ ops[i].pc \in Loading /\ ops[i].gen # 0 /\ \A j : ~Launches(page, ops[i], j)
      /\ page \in PageRecord /\ SameGens(page, page) /\ PageFits(page, sessions, made, Len(jobs))
      /\ jobs \in Seq(JobRecord) /\ \A j \in DOMAIN jobs : jobs[j].session <= sessions
  BY <1>1, PhotoOperation DEF Loading, Launched, HasJob
<1>3. ops[i].gen = page.importGeneration => page.session = 0
  <2>1. ActiveJob(page, ops)
    BY Known DEF Claims
  <2> QED BY <1>2, <2>1 DEF ActiveJob, LoadsPhoto
<1>4. CASE Spend("faults") /\ Goto(i, "refused") /\ UNCHANGED jobs
  <2>1. left' \in Budget
    BY <1>4, Spending, Known DEF Rests
  <2>2. ASSUME NEW x, Moves(ops[i], x, "refused")
        PROVE PhotoPage(page, page', store, ops[i], x) /\ PhotoJobs(page, page', ops[i], x, jobs, jobs')
    <3>1. x.pc = "refused" /\ x.job = ops[i].job
      BY <2>2 DEF Moves, SameClaim
    <3>2. PhotoPage(page, page', store, ops[i], x)
      BY <1>1, <1>3, <3>1 DEF PhotoPage, Loading
    <3> QED BY <1>2, <1>4, <3>2 DEF PhotoJobs
  <2>3. "refused" \in PCs /\ "refused" \in (Loading \ {"cancelling"}) \cup {"dropping", "done"} /\ "refused" \notin HasJob
    BY DEF PCs, Working, Loading, HasJob
  <2>4. page' \in PageRecord /\ SameGens(page, page') /\ PageFits(page', sessions, made, Len(jobs)) /\ jobs' = jobs
    BY <1>1, <1>2, <1>4
  <2> QED BY <1>1, <1>2, <1>4, <2>1, <2>2, <2>3, <2>4, HasStill, PhotoKeeps DEF Goto
<1>5. CASE /\ jobs' = Append([j \in DOMAIN jobs |-> IF jobs[j].state = "running"
                                                   THEN [jobs[j] EXCEPT !.state = "cancelled"] ELSE jobs[j]],
                            [doc |-> ops[i].target, state |-> "running", session |-> 0])
           /\ ops' = [ops EXCEPT ![i].job = Len(jobs) + 1, ![i].pc = "created"]
           /\ UNCHANGED left
  <2> DEFINE n == Len(jobs) + 1
  <2> DEFINE o == ops[i]
  <2> DEFINE x == [o EXCEPT !.job = n, !.pc = "created"]
  <2>1. /\ o \in OpRecord /\ Shape(o) /\ Serving(o) /\ OpFits(o, sessions, made, Len(jobs)) /\ left' \in Budget
        /\ Len(jobs) \in Nat
    BY <1>5, Known
  <2>2. /\ jobs' \in Seq(JobRecord) /\ Len(jobs') = n
        /\ \A j \in DOMAIN jobs' : jobs'[j].session <= sessions /\ (jobs'[j].state = "running" => j = n)
        /\ StillHas(store, jobs, store, jobs')
    <3>1. ops[i].target \in Photos
      BY <1>2, <2>1 DEF Serving
    <3> QED BY <1>5, <3>1, StartedJobs
  <2>3. n \in Nat /\ n # 0 /\ Len(jobs) <= n
    BY <2>1
  <2>4. ops' = [ops EXCEPT ![i].job = n, ![i].pc = "created"]
    BY <1>5
  <2> HIDE DEF n
  <2>5. x \in OpRecord
    BY <2>1, <2>3 DEF OpRecord, PCs, Working
  <2>6. /\ SameClaim(o, x) /\ x.pc = "created" /\ x.session = o.session /\ x.server = o.server /\ x.job = n
        /\ x.token = o.token /\ x.target = o.target /\ x.read = o.read /\ x.gen = o.gen /\ x.kind = "photo"
    BY <1>2, <2>1 DEF OpRecord, SameClaim
  <2>7. ops' = [ops EXCEPT ![i] = x]
    BY <2>4
  <2> HIDE DEF x, o
  <2>8. OnlyOp(ops, ops', i) /\ ops'[i] = x
    BY <2>5, <2>7, Known DEF OnlyOp
  <2>9. Shape(x)
    BY <1>1, <1>2, <2>1, <2>3, <2>6 DEF Shape, SameClaim, Asked, Loading, Begun, Saves, HasJob, o
  <2>10. Serving(x) /\ OpFits(x, sessions, made, n)
    <3>1. o.kind = "photo" /\ x.pc = "created"
      BY <1>2, <2>6 DEF o
    <3>2. Serving(x)
      BY <2>1, <2>6, <3>1 DEF Serving, SameClaim
    <3>3. OpFits(x, sessions, made, n)
      BY <2>1, <2>3, <2>6 DEF OpFits
    <3> QED BY <3>2, <3>3
  <2>11. PhotoPage(page, page, store, o, x)
    BY <1>1, <1>3, <2>1, <2>3, <2>6 DEF PhotoPage, Loading, Shape, o
  <2>12. PhotoJobs(page, page, o, x, jobs, jobs')
    BY <2>2, <2>6 DEF PhotoJobs, Launches, Launched, HasJob
  <2>13. Good(page, ops', store, jobs', sessions, made)
    <3>1. Good(page, ops, store, jobs, sessions, made) /\ PageFits(page, sessions, made, n) /\ Len(jobs') = n
      BY <1>2, <2>1, <2>2, <2>3, Known DEF PageFits, PageRecord
    <3> QED BY <1>2, <2>1, <2>2, <2>3, <2>6, <2>8, <2>9, <2>10, <2>11, <2>12, <3>1, PhotoGood DEF o
  <2>14. Backend'
    BY <1>1, <1>2, <2>1, <2>2, <2>8, BackendJobs
  <2>15. ops[i].pc \in Past /\ ops'[i].pc # "new"
    BY <1>2, <2>6, <2>8 DEF Past
  <2> QED BY <1>1, <2>8, <2>13, <2>14, <2>15, PastKeeps
<1> QED BY <1>4, <1>5 DEF start

-----------------------------------------------------------------------------
(* Other operations that go on.                                               *)

\* An operation that loads no photo goes on, and jobs may end meanwhile.
LEMMA QuietGood ==
  ASSUME DocumentInv, NEW q \in PageRecord, NEW out, NEW st, NEW js, NEW i \in DOMAIN ops, NEW x \in OpRecord,
         out = [ops EXCEPT ![i] = x], ops[i].kind # "photo", SameClaim(ops[i], x),
         AnswersStep(page, ops[i], x), Shape(x), Serving(x), OpFits(x, sessions, made, Len(jobs)),
         Waits(x) => Waits(ops[i]),
         ops[i].pc # "saving" \/ \A k \in DOMAIN ops : k # i /\ Waits(ops[k]) => ops[k].parent # i,
         SameGens(page, q), PageFits(q, sessions, made, Len(jobs)), q.session \in {page.session, 0},
         q.activeImportJobId = page.activeImportJobId, st.session = store.session,
         Len(js) = Len(jobs), DOMAIN js = DOMAIN jobs,
         \A j \in DOMAIN js : js[j].state = "running" => jobs[j].state = "running",
         StillHas(store, jobs, store, js)
  PROVE Good(q, out, st, js, sessions, made) /\ OnlyOp(ops, out, i) /\ out[i] = x
<1>1. OnlyOp(ops, out, i) /\ out[i] = x
  BY Known DEF OnlyOp
<1>2. Good(page, ops, store, jobs, sessions, made)
  BY Known
<1>3. Good(q, out, st, jobs, sessions, made)
  BY <1>1, <1>2, StepGood
<1>4. Good(q, out, st, js, sessions, made)
  BY <1>3, JobsGood DEF StillHas
<1> QED BY <1>1, <1>4

\* The same for a step to another pc.
LEMMA MovedGood ==
  ASSUME DocumentInv, NEW q \in PageRecord, NEW js, NEW i \in DOMAIN ops, NEW pc \in PCs,
         ops[i].kind # "photo", pc \notin {"starting", "relinking", "showing"},
         \A x : Moves(ops[i], x, pc) => Shape(x),
         ops[i].server # "cleared late" \/ pc = "done",
         ops[i].server \notin InBackend \/ Aborted(page, ops[i]),
         ops[i].kind = "save" => ops[i].pc # "done",
         ops[i].pc # "saving" \/ \A k \in DOMAIN ops : k # i /\ Waits(ops[k]) => ops[k].parent # i,
         SameGens(page, q), PageFits(q, sessions, made, Len(jobs)), q.session \in {page.session, 0},
         q.activeImportJobId = page.activeImportJobId,
         Len(js) = Len(jobs), DOMAIN js = DOMAIN jobs,
         \A j \in DOMAIN js : js[j].state = "running" => jobs[j].state = "running",
         StillHas(store, jobs, store, js)
  PROVE LET out == [ops EXCEPT ![i].pc = pc] IN
        Good(q, out, store, js, sessions, made) /\ OnlyOp(ops, out, i) /\ Moves(ops[i], out[i], pc)
<1> DEFINE out == [ops EXCEPT ![i].pc = pc]
<1>1. OnlyOp(ops, out, i) /\ Moves(ops[i], out[i], pc) /\ out[i] \in OpRecord /\ ops \in Seq(OpRecord)
  BY Known, Moved
<1> HIDE DEF out
<1>2. Serving(ops[i]) /\ OpFits(ops[i], sessions, made, Len(jobs))
  BY Known
<1>3. Shape(out[i]) /\ Serving(out[i]) /\ OpFits(out[i], sessions, made, Len(jobs))
  BY <1>1, <1>2, MovedServes, MovedFits
<1>4. /\ SameClaim(ops[i], out[i]) /\ AnswersStep(page, ops[i], out[i]) /\ (Waits(out[i]) => Waits(ops[i]))
  BY <1>1 DEF Moves, SameClaim, AnswersStep, InBackend, Waits
<1>5. Good(page, ops, store, jobs, sessions, made)
  BY Known
<1>6. Good(q, out, store, jobs, sessions, made)
  BY <1>1, <1>3, <1>4, <1>5, StepGood
<1>7. Good(q, out, store, js, sessions, made)
  BY <1>6, JobsGood
<1> QED BY <1>1, <1>7 DEF out

\* A project's open that is the newest request aborts the one before it.
LEMMA BeginGood ==
  ASSUME DocumentInv, NEW i \in DOMAIN ops, ops[i].pc = "cancelling", ops[i].kind = "project", ~Stale(page, ops[i])
  PROVE LET r == BeginProject(page, ops, i) IN
        Good(r.page, r.ops, store, jobs, sessions, made) /\ OnlyOp(ops, r.ops, i) /\ r.ops[i].pc = "starting"
<1> DEFINE h == page.projectOpenGeneration + 1
<1> DEFINE q == [page EXCEPT !.projectOpenGeneration = h, !.openDisabled = TRUE]
<1> DEFINE o == ops[i]
<1> DEFINE x == [o EXCEPT !.pgen = h, !.pc = "starting"]
<1> DEFINE out == [ops EXCEPT ![i] = x]
<1>1. /\ page \in PageRecord /\ ops \in Seq(OpRecord) /\ o \in OpRecord /\ Shape(o) /\ Serving(o)
      /\ Claims(page, ops) /\ Good(page, ops, store, jobs, sessions, made) /\ OpFits(o, sessions, made, Len(jobs))
      /\ PageFits(page, sessions, made, Len(jobs))
  BY Known
<1>2. h \in Nat /\ h # 0 /\ page.projectOpenGeneration \in Nat /\ page.projectOpenGeneration < h
  BY <1>1 DEF PageRecord
<1>3. BeginProject(page, ops, i) = [page |-> q, ops |-> out]
  <2>1. BeginProject(page, ops, i) =
          [page |-> [page EXCEPT !.projectOpenGeneration = @ + 1, !.openDisabled = TRUE],
           ops |-> [ops EXCEPT ![i].pgen = h, ![i].pc = "starting"]]
    BY DEF BeginProject
  <2>2. [page EXCEPT !.projectOpenGeneration = @ + 1, !.openDisabled = TRUE] = q
    BY <1>1 DEF PageRecord
  <2>3. [ops EXCEPT ![i].pgen = h, ![i].pc = "starting"] = out
    OBVIOUS
  <2> HIDE DEF q, out
  <2> QED BY <2>1, <2>2, <2>3
<1> HIDE DEF h
<1>4. /\ q \in PageRecord /\ q.projectOpenGeneration = h /\ q.importGeneration = page.importGeneration
      /\ SamePage(page, q) /\ q.activeImportJobId = page.activeImportJobId
  BY <1>1, <1>2 DEF PageRecord, SamePage
<1>5. x \in OpRecord
  BY <1>1, <1>2 DEF OpRecord, PCs, Working
<1>6. /\ x.pc = "starting" /\ x.pgen = h /\ x.kind = "project" /\ x.gen = o.gen /\ x.parent = o.parent
      /\ x.job = o.job /\ x.session = o.session /\ x.server = o.server /\ x.token = o.token
      /\ x.target = o.target /\ x.read = o.read
  BY <1>1 DEF OpRecord
<1>7. o.gen # 0 /\ o.pgen = 0 /\ o.server = None /\ o.gen = page.importGeneration
  <2>1. o.pc = "cancelling" /\ o.kind = "project"
    OBVIOUS
  <2>2. o.gen # 0 /\ o.pgen = 0
    BY <1>1, <2>1 DEF Shape, Loading, Begun
  <2>3. o.server \in Servers
    BY <1>1 DEF OpRecord
  <2> QED BY <1>1, <2>1, <2>2, <2>3 DEF Serving, Stale
<1> HIDE DEF q, x
<1>8. OnlyOp(ops, out, i) /\ out[i] = x
  BY <1>1, <1>5 DEF OnlyOp
<1> HIDE DEF out, o
<1>9. DOMAIN out = DOMAIN ops /\ \A k \in DOMAIN ops : k # i => out[k] = ops[k]
  BY <1>8 DEF OnlyOp
<1>10. Shape(x) /\ Serving(x) /\ OpFits(x, sessions, made, Len(jobs))
  <2>1. Shape(x)
    BY <1>2, <1>6, <1>7 DEF Shape, Asked, Loading, Begun, Saves, HasJob
  <2>2. Serving(x)
    BY <1>1, <1>6, <1>7 DEF Serving, None, o
  <2>3. OpFits(x, sessions, made, Len(jobs))
    BY <1>1, <1>6, <1>7 DEF OpFits, None
  <2> QED BY <2>1, <2>2, <2>3
<1>11. Shapes(out) /\ Parents(out)
  <2>1. Shapes(out)
    BY <1>1, <1>8, <1>9, <1>10 DEF Claims, Shapes
  <2>2. o.pc = "cancelling" /\ o.kind = "project"
    BY DEF o
  <2>3. ~Waits(x) /\ ~Waits(o) /\ o = ops[i]
    BY <1>6, <2>2 DEF Waits, o
  <2>4. Parents(out)
    BY <1>1, <1>8, <1>9, <2>2, <2>3 DEF Claims, Parents
  <2> QED BY <2>1, <2>4
<1>12. \A k \in DOMAIN ops : /\ ops[k].gen \in Nat /\ ops[k].pgen \in Nat
                             /\ ops[k].gen <= page.importGeneration /\ ops[k].pgen < h
  <2> TAKE k \in DOMAIN ops
  <2>1. ops[k].gen <= page.importGeneration /\ ops[k].pgen <= page.projectOpenGeneration
    BY <1>1 DEF Claims, Gens
  <2>2. ops[k] \in OpRecord
    BY <1>1
  <2>3. ops[k].gen \in Nat /\ ops[k].pgen \in Nat
    BY <2>2 DEF OpRecord
  <2> QED BY <1>2, <2>1, <2>3
<1>13. Gens(q, out)
  <2>1. Gens(page, ops)
    BY <1>1 DEF Claims
  <2>2. \A k \in DOMAIN out : out[k].gen <= q.importGeneration /\ out[k].pgen <= q.projectOpenGeneration
    BY <1>2, <1>4, <1>6, <1>7, <1>8, <1>9, <1>12 DEF PageRecord
  <2>3. \A k \in DOMAIN out : out[k].gen = ops[k].gen /\ (k # i => out[k].pgen = ops[k].pgen) /\ out[i].pgen = h
    BY <1>6, <1>8, <1>9 DEF o
  <2> QED BY <1>2, <1>9, <1>12, <2>1, <2>2, <2>3 DEF Gens
<1>14. Newest(q, out)
  <2>1. \A k \in DOMAIN out : out[k].pgen # 0 /\ out[k].pgen = q.projectOpenGeneration => k = i
    BY <1>4, <1>9, <1>12
  <2>2. \A k \in DOMAIN ops : k # i => ops[k].gen # ops[i].gen
    BY <1>1, <1>7 DEF Claims, Gens, o
  <2>3. \A k \in DOMAIN out : k # i => out[k].gen < out[i].gen
    BY <1>6, <1>7, <1>8, <1>9, <1>12, <2>2 DEF o
  <2> QED BY <2>1, <2>3 DEF Newest
<1>15. ActiveJob(q, out) /\ Running(q, out, jobs)
  <2>1. \A k \in DOMAIN out : LoadsPhoto(q, out[k]) => k # i /\ LoadsPhoto(page, ops[k]) /\ out[k] = ops[k]
    BY <1>4, <1>6, <1>8, <1>9 DEF LoadsPhoto
  <2>2. \A k \in DOMAIN ops : LoadsPhoto(page, ops[k]) => k # i /\ LoadsPhoto(q, out[k]) /\ out[k] = ops[k]
    BY <1>4, <1>6, <1>8, <1>9 DEF LoadsPhoto, o
  <2>3. \A k \in DOMAIN out : out[k].pc = "dropping" => k # i /\ out[k] = ops[k]
    BY <1>6, <1>8, <1>9
  <2>4. ActiveJob(page, ops) /\ Running(page, ops, jobs)
    BY Known DEF Claims
  <2>5. ActiveJob(q, out)
    BY <1>4, <1>9, <2>1, <2>2, <2>3, <2>4 DEF ActiveJob, SamePage
  <2>6. \A k \in DOMAIN ops : \A j : Launches(page, ops[k], j) => Launches(q, out[k], j)
    BY <1>4, <1>6, <1>9 DEF Launches, o
  <2> QED BY <1>9, <2>4, <2>5, <2>6 DEF Running
<1>16. Shown(q, out, store, jobs) /\ Answers(q, out, store, jobs)
  <2>1. StillHolds(page, ops, q, out)
    <3>1. \A k \in DOMAIN ops : Stale(page, ops[k]) <=> Stale(q, out[k])
      BY <1>4, <1>6, <1>8, <1>9 DEF Stale, o
    <3>2. \A k \in DOMAIN ops : /\ out[k].kind = ops[k].kind /\ out[k].job = ops[k].job
                                /\ out[k].server = ops[k].server /\ out[k].session = ops[k].session
      BY <1>6, <1>8, <1>9 DEF o
    <3> QED BY <1>9, <3>1, <3>2 DEF StillHolds, HoldsIn
  <2>2. StillAnswers(page, ops, q, out)
    <3>1. \A k \in DOMAIN out : k # i => Aborted(q, out[k])
      BY <1>4, <1>9, <1>12 DEF Aborted
    <3>2. out[i].server \notin InBackend
      BY <1>6, <1>7, <1>8 DEF InBackend, None
    <3> QED BY <3>1, <3>2 DEF StillAnswers
  <2> QED BY <1>4, <2>1, <2>2, HasStill, ShownKept, AnswersKept, Known DEF SamePage
<1>17. Good(q, out, store, jobs, sessions, made)
  <2>1. PageFits(q, sessions, made, Len(jobs))
    BY <1>1, <1>4 DEF PageFits, SamePage
  <2>2. \A k \in DOMAIN out : OpFits(out[k], sessions, made, Len(jobs))
    BY <1>8, <1>9, <1>10, Known
  <2> QED BY <1>4, <1>8, <1>11, <1>13, <1>14, <1>15, <1>16, <2>1, <2>2 DEF Good, Claims, OnlyOp
<1> QED BY <1>3, <1>6, <1>8, <1>17

LEMMA JobCancelledKeeps ==
  ASSUME DocumentInv, NEW i \in DOMAIN ops, JobCancelled(i)
  PROVE DocumentInv'
<1>1. /\ ops[i].pc = "cancelling" /\ UNCHANGED <<store, files, sessions, made, early, settled>>
      /\ left' \in Budget /\ jobs' = CancelJob(ops[i].job)
  BY Known DEF JobCancelled
<1>2. /\ ops[i] \in OpRecord /\ Shape(ops[i]) /\ Serving(ops[i]) /\ ops[i].job \in Nat /\ ops[i].pgen = 0
      /\ ops[i].gen # 0 /\ ops[i].kind \in {"photo", "project", "eject", "cancel"}
  <2>1. ops[i] \in OpRecord /\ Shape(ops[i]) /\ Serving(ops[i])
    BY Known
  <2>2. ops[i].kind \in Kinds /\ ops[i].job \in Nat
    BY <2>1 DEF OpRecord
  <2> QED BY <1>1, <2>1, <2>2 DEF Shape, Kinds, Loading, Begun
<1>3. /\ jobs' \in Seq(JobRecord) /\ Len(jobs') = Len(jobs) /\ DOMAIN jobs' = DOMAIN jobs
      /\ \A j \in DOMAIN jobs' : /\ jobs'[j].session <= sessions
                                 /\ jobs'[j].state = "running" => jobs[j].state = "running"
      /\ StillHas(store, jobs, store, jobs')
  BY <1>1, <1>2, CancelledJob
<1>4. /\ page \in PageRecord /\ SameGens(page, page) /\ PageFits(page, sessions, made, Len(jobs))
      /\ ops[i].pc \in Loading /\ ops[i].pc \in Past
  BY <1>1, Known DEF SameGens, Loading, Past
<1>5. ops[i].server \notin InBackend /\ (ops[i].server = "cleared late" => ops[i].pc = "done")
  BY <1>2 DEF Serving, InBackend, Servers, None
<1>6. ASSUME NEW pc \in {"done", "clearing"}, ops' = [ops EXCEPT ![i].pc = pc], ops[i].kind # "photo",
             pc = "clearing" => ops[i].kind = "eject",
             page' \in PageRecord, SameGens(page, page'), PageFits(page', sessions, made, Len(jobs)),
             page'.session = page.session, page'.activeImportJobId = page.activeImportJobId
      PROVE DocumentInv'
  <2>1. pc \in PCs
    BY DEF PCs, Working
  <2>2. ASSUME NEW x, Moves(ops[i], x, pc)
        PROVE Shape(x)
    <3>1. x.kind = ops[i].kind /\ x.pc = pc /\ x.gen = ops[i].gen /\ x.pgen = 0
      BY <1>2, <2>2 DEF Moves, SameClaim
    <3> QED BY <1>2, <1>6, <3>1 DEF Shape, Asked, Loading, Begun, Saves, HasJob
  <2>3. /\ Good(page', ops', store, jobs', sessions, made) /\ OnlyOp(ops, ops', i)
        /\ Moves(ops[i], ops'[i], pc)
    BY <1>1, <1>2, <1>3, <1>5, <1>6, <2>1, <2>2, MovedGood
  <2>4. Backend'
    BY <1>1, <1>3, <2>3, BackendJobs
  <2>5. ops'[i].pc # "new"
    BY <2>3 DEF Moves
  <2> QED BY <1>1, <1>4, <2>3, <2>4, <2>5, PastKeeps
<1>7. CASE Stale(page, ops[i])
  <2>1. page' = page /\ Goto(i, "done")
    BY <1>7 DEF JobCancelled, Done
  <2>2. CASE ops[i].kind = "photo"
    BY <1>1, <1>3, <1>4, <1>7, <2>1, <2>2, StaleKeeps
  <2>3. CASE ops[i].kind # "photo"
    BY <1>4, <1>6, <2>1, <2>3 DEF Goto
  <2> QED BY <2>2, <2>3
<1>8. CASE ~Stale(page, ops[i]) /\ ops[i].kind = "eject"
  <2>1. page' = page /\ ops' = [ops EXCEPT ![i].pc = "clearing"]
    BY <1>8 DEF JobCancelled, Becomes
  <2> QED BY <1>4, <1>6, <1>8, <2>1
<1>9. CASE ~Stale(page, ops[i]) /\ ops[i].kind = "cancel"
  <2>1. page' = finishGradeOpen(page) /\ ops' = [ops EXCEPT ![i].pc = "done"]
    BY <1>9 DEF JobCancelled, Becomes
  <2>2. /\ page' \in PageRecord /\ SameGens(page, page') /\ PageFits(page', sessions, made, Len(jobs))
        /\ page'.session = page.session /\ page'.activeImportJobId = 0
    BY <2>1, FinishedPage
  <2>3. \A k \in DOMAIN ops : ~LoadsPhoto(page, ops[k])
    BY <1>2, <1>9, Known DEF Claims, Gens, LoadsPhoto, Stale
  <2>4. page.activeImportJobId = 0
    BY <2>3, Known DEF Claims, ActiveJob
  <2> QED BY <1>6, <1>9, <2>1, <2>2, <2>4
<1>10. CASE ~Stale(page, ops[i]) /\ ops[i].kind = "project"
  <2>1. page' = BeginProject(page, ops, i).page /\ ops' = BeginProject(page, ops, i).ops
    BY <1>10 DEF JobCancelled, Becomes
  <2>2. /\ Good(page', ops', store, jobs, sessions, made) /\ OnlyOp(ops, ops', i) /\ ops'[i].pc = "starting"
    BY <1>1, <1>10, <2>1, BeginGood
  <2>3. Good(page', ops', store, jobs', sessions, made)
    BY <1>3, <2>2, JobsGood
  <2>4. Backend'
    BY <1>1, <1>3, <2>2, BackendJobs
  <2> QED BY <1>1, <1>4, <2>2, <2>3, <2>4, PastKeeps
<1>11. CASE ~Stale(page, ops[i]) /\ ops[i].kind = "photo"
  <2> DEFINE o == ops[i]
  <2> DEFINE x == [o EXCEPT !.pc = "preparing", !.job = 0]
  <2>1. page' = page /\ ops' = [ops EXCEPT ![i].pc = "preparing", ![i].job = 0]
    BY <1>11 DEF JobCancelled, Becomes
  <2>2. OpFits(o, sessions, made, Len(jobs)) /\ Len(jobs) \in Nat /\ Good(page, ops, store, jobs, sessions, made)
    BY Known
  <2>3. x \in OpRecord
    BY <1>2 DEF OpRecord, PCs, Working
  <2>4. /\ SameClaim(o, x) /\ x.pc = "preparing" /\ x.session = o.session /\ x.server = o.server /\ x.job = 0
        /\ x.token = o.token /\ x.target = o.target /\ x.read = o.read /\ x.gen = o.gen /\ x.kind = "photo"
        /\ x.pgen = 0
    BY <1>2, <1>11 DEF OpRecord, SameClaim
  <2>5. ops' = [ops EXCEPT ![i] = x]
    BY <2>1
  <2> HIDE DEF x
  <2>6. OnlyOp(ops, ops', i) /\ ops'[i] = x
    BY <2>3, <2>5, Known DEF OnlyOp
  <2>7. Shape(x)
    BY <1>2, <2>4 DEF Shape, Asked, Loading, Begun, Saves, HasJob
  <2>8. Serving(x) /\ OpFits(x, sessions, made, Len(jobs))
    <3>1. Serving(x)
      BY <1>2, <1>11, <2>4 DEF Serving, SameClaim
    <3>2. OpFits(x, sessions, made, Len(jobs))
      BY <2>2, <2>4 DEF OpFits
    <3> QED BY <3>1, <3>2
  <2>9. page.session = 0
    <3>1. ActiveJob(page, ops) /\ LoadsPhoto(page, ops[i])
      BY <1>4, <1>11, Known DEF Claims, LoadsPhoto, Stale
    <3> QED BY <3>1 DEF ActiveJob
  <2>10. PhotoPage(page, page, store, o, x)
    BY <1>11, <2>4, <2>9 DEF PhotoPage, Loading, Stale
  <2>11. PhotoJobs(page, page, o, x, jobs, jobs')
    BY <1>1, <1>3 DEF PhotoJobs, Launches, Launched, HasJob
  <2>12. Good(page, ops', store, jobs', sessions, made)
    BY <1>2, <1>3, <1>4, <1>11, <2>2, <2>4, <2>6, <2>7, <2>8, <2>10, <2>11, PhotoGood
  <2>13. Backend'
    BY <1>1, <1>3, <2>6, BackendJobs
  <2> QED BY <1>1, <1>4, <2>1, <2>4, <2>6, <2>12, <2>13, PastKeeps
<1> QED BY <1>2, <1>7, <1>8, <1>9, <1>10, <1>11

-----------------------------------------------------------------------------
(* The open of a project, step by step.                                       *)

\* What the pc of a project's open says about it.
LEMMA ProjectOperation ==
  ASSUME DocumentInv, NEW i \in DOMAIN ops, ops[i].pc \in Begun
  PROVE /\ ops[i] \in OpRecord /\ ops[i].kind = "project" /\ ops[i].gen # 0 /\ ops[i].pgen # 0
        /\ Shape(ops[i]) /\ Serving(ops[i]) /\ OpFits(ops[i], sessions, made, Len(jobs))
        /\ ops[i].server # "cleared late" /\ ops[i].pc \in Past /\ ops[i].pc # "saving" /\ ~Waits(ops[i])
<1>1. ops[i] \in OpRecord /\ Shape(ops[i]) /\ Serving(ops[i]) /\ OpFits(ops[i], sessions, made, Len(jobs))
  BY Known
<1> QED BY <1>1 DEF Shape, Serving, Begun, Past, Waits

LEMMA EndedPage ==
  ASSUME NEW pg \in PageRecord, NEW q, q = pg \/ q = [pg EXCEPT !.openDisabled = FALSE]
  PROVE /\ q \in PageRecord /\ SameGens(pg, q) /\ SamePage(pg, q)
        /\ q.activeImportJobId = pg.activeImportJobId
<1>1. CASE q = pg
  BY <1>1 DEF SameGens, SamePage
<1>2. CASE q = [pg EXCEPT !.openDisabled = FALSE]
  BY <1>2 DEF PageRecord, SameGens, SamePage
<1> QED BY <1>1, <1>2

LEMMA EndsKeeps ==
  ASSUME DocumentInv, NEW i \in DOMAIN ops, ops[i].pc \in Begun, Becomes(EndProject(page, ops, i)),
         ops[i].server \notin InBackend \/ Aborted(page, ops[i]),
         UNCHANGED <<store, jobs, files, sessions, made, early, settled>>, left' \in Budget
  PROVE DocumentInv'
<1>1. /\ page' = page \/ page' = [page EXCEPT !.openDisabled = FALSE]
      /\ ops' = [ops EXCEPT ![i].pc = "done"]
  BY DEF Becomes, EndProject
<1>2. /\ page' \in PageRecord /\ SameGens(page, page') /\ SamePage(page, page')
      /\ page'.activeImportJobId = page.activeImportJobId
  BY <1>1, EndedPage, Known
<1>3. PageFits(page', sessions, made, Len(jobs))
  BY <1>2, Known DEF PageFits, SamePage, SameGens
<1>4. ASSUME NEW x, Moves(ops[i], x, "done")
      PROVE Shape(x)
  <2>1. x.kind = "project" /\ x.pc = "done" /\ x.gen # 0
    BY <1>4, ProjectOperation DEF Moves, SameClaim
  <2> QED BY <2>1 DEF Shape, Asked, Loading, Begun, Saves, HasJob
<1>5. "done" \in PCs /\ page'.session \in {page.session, 0}
  BY <1>2 DEF PCs, SamePage
<1>6. /\ Good(page', ops', store, jobs, sessions, made) /\ OnlyOp(ops, ops', i)
      /\ Moves(ops[i], ops'[i], "done")
  BY <1>1, <1>2, <1>3, <1>4, <1>5, ProjectOperation, HasStill, MovedGood
<1>7. Backend'
  <2>1. jobs' \in Seq(JobRecord) /\ \A j \in DOMAIN jobs' : jobs'[j].session <= sessions
    BY Known DEF Backend
  <2> QED BY <1>6, <2>1, BackendJobs
<1>8. ops'[i].pc # "new" /\ ops[i].pc \in Past
  BY <1>6, ProjectOperation DEF Moves
<1> QED BY <1>6, <1>7, <1>8, PastKeeps

\* The request goes out, or its answer asks where the source is.
LEMMA BegunKeeps ==
  ASSUME DocumentInv, NEW i \in DOMAIN ops, ops[i].pc \in Begun, NEW x \in OpRecord, ops' = [ops EXCEPT ![i] = x],
         SameClaim(ops[i], x), x.session = ops[i].session, x.job = ops[i].job, x.token = ops[i].token,
         x.target = ops[i].target, x.read = ops[i].read, ops[i].server \notin {"read", "holding", "activated"},
         \/ x.pc = "opening" /\ x.server = "sent"
         \/ x.pc = "relinking" /\ x.server = "relink",
         UNCHANGED <<page, store, jobs, files, sessions, made, early, settled>>, left' \in Budget
  PROVE DocumentInv'
<1>1. /\ ops[i].kind = "project" /\ ops[i].gen # 0 /\ ops[i].pgen # 0 /\ ops[i].pc \in Past /\ ops[i].pc # "saving"
      /\ ops[i].server # "cleared late" /\ Serving(ops[i]) /\ OpFits(ops[i], sessions, made, Len(jobs))
  BY ProjectOperation
<1>2. x.kind = "project" /\ x.gen # 0 /\ x.pgen # 0 /\ x.pc \in {"opening", "relinking"}
  BY <1>1 DEF SameClaim
<1>3. Shape(x)
  BY <1>2 DEF Shape, Asked, Loading, Begun, Saves, HasJob
<1>4. Serving(x) /\ OpFits(x, sessions, made, Len(jobs))
  BY <1>1, <1>2 DEF Serving, OpFits, None
<1>5. AnswersStep(page, ops[i], x) /\ ~Waits(x)
  BY <1>1, <1>2 DEF AnswersStep, InBackend, Waits
<1>6. page \in PageRecord /\ SameGens(page, page) /\ PageFits(page, sessions, made, Len(jobs))
  BY Known DEF SameGens
<1>7. Good(page, ops', store, jobs, sessions, made) /\ OnlyOp(ops, ops', i) /\ ops'[i] = x
  BY <1>1, <1>3, <1>4, <1>5, <1>6, HasStill, QuietGood
<1>8. Backend'
  <2>1. jobs' \in Seq(JobRecord) /\ \A j \in DOMAIN jobs' : jobs'[j].session <= sessions
    BY Known DEF Backend
  <2> QED BY <1>7, <2>1, BackendJobs
<1> QED BY <1>1, <1>2, <1>7, <1>8, PastKeeps

LEMMA StartedKeeps ==
  ASSUME DocumentInv, NEW i \in DOMAIN ops, Started(i)
  PROVE DocumentInv'
<1>1. /\ ops[i].pc = "starting" /\ UNCHANGED <<store, jobs, files, sessions, made, early, settled>>
      /\ left' \in Budget /\ ops[i].pc \in Begun
  BY Known DEF Started, Begun
<1>2. ops[i].server = None /\ ops[i] \in OpRecord
  BY <1>1, ProjectOperation DEF Serving
<1>3. CASE Aborted(page, ops[i])
  <2>1. Becomes(EndProject(page, ops, i))
    BY <1>3 DEF Started
  <2> QED BY <1>1, <1>3, <2>1, EndsKeeps
<1>4. CASE ~Aborted(page, ops[i])
  <2> DEFINE x == [ops[i] EXCEPT !.pc = "opening", !.server = "sent"]
  <2>1. page' = page /\ ops' = [ops EXCEPT ![i] = x]
    BY <1>4 DEF Started
  <2>2. x \in OpRecord
    <3>1. "opening" \in PCs /\ "sent" \in Servers
      BY DEF PCs, Working, Servers
    <3> QED BY <1>2, <3>1 DEF OpRecord
  <2>3. /\ SameClaim(ops[i], x) /\ x.session = ops[i].session /\ x.job = ops[i].job /\ x.token = ops[i].token
        /\ x.target = ops[i].target /\ x.read = ops[i].read /\ x.pc = "opening" /\ x.server = "sent"
    BY <1>2 DEF OpRecord, SameClaim
  <2> HIDE DEF x
  <2>4. ops[i].server \notin {"read", "holding", "activated"}
    BY <1>2 DEF None
  <2> QED BY <1>1, <2>1, <2>2, <2>3, <2>4, BegunKeeps
<1> QED BY <1>3, <1>4

LEMMA RelinkedKeeps ==
  ASSUME DocumentInv, NEW i \in DOMAIN ops, Relinked(i)
  PROVE DocumentInv'
<1>1. /\ ops[i].pc = "relinking" /\ UNCHANGED <<store, jobs, files, sessions, made, early, settled>>
      /\ left' \in Budget /\ ops[i].pc \in Begun
  BY Known DEF Relinked, Begun
<1>2. ops[i].server = "relink" /\ ops[i] \in OpRecord /\ ops[i].server \notin InBackend
  BY <1>1, ProjectOperation DEF Serving, InBackend
<1>3. CASE Becomes(EndProject(page, ops, i))
  BY <1>1, <1>2, <1>3, EndsKeeps
<1>4. CASE ops' = [ops EXCEPT ![i].pc = "opening", ![i].server = "sent", ![i].relinked = TRUE] /\ UNCHANGED page
  <2> DEFINE x == [ops[i] EXCEPT !.pc = "opening", !.server = "sent", !.relinked = TRUE]
  <2>1. ops' = [ops EXCEPT ![i] = x]
    BY <1>4
  <2>2. x \in OpRecord
    BY <1>2 DEF OpRecord, PCs, Working, Servers
  <2>3. /\ SameClaim(ops[i], x) /\ x.session = ops[i].session /\ x.job = ops[i].job /\ x.token = ops[i].token
        /\ x.target = ops[i].target /\ x.read = ops[i].read /\ x.pc = "opening" /\ x.server = "sent"
    BY <1>2 DEF OpRecord, SameClaim
  <2> HIDE DEF x
  <2> QED BY <1>1, <1>2, <1>4, <2>1, <2>2, <2>3, BegunKeeps
<1> QED BY <1>3, <1>4 DEF Relinked

\* While the newest open of a project is not aborted, no photo loads.
LEMMA NewestAlone ==
  ASSUME DocumentInv, NEW i \in DOMAIN ops, ops[i].pgen # 0, ~Aborted(page, ops[i])
  PROVE /\ \A k \in DOMAIN ops : ~LoadsPhoto(page, ops[k])
        /\ \A k \in DOMAIN ops : k # i /\ ops[k].kind # "cancel" => ops[k].gen < ops[i].gen
        /\ \A k \in DOMAIN ops : k # i /\ ops[k].pgen # 0 => Aborted(page, ops[k])
        /\ page.activeImportJobId = 0 /\ ops[i].kind = "project"
<1>1. Newest(page, ops) /\ Gens(page, ops) /\ ActiveJob(page, ops) /\ page \in PageRecord /\ Shape(ops[i])
  BY Known DEF Claims
<1>2. \A k \in DOMAIN ops : k # i /\ ops[k].kind # "cancel" => ops[k].gen < ops[i].gen
  BY <1>1 DEF Newest, Aborted
<1>3. ops[i].kind = "project" /\ ops[i].gen <= page.importGeneration /\ page.importGeneration \in Nat
  BY <1>1 DEF Gens, Shape, PageRecord
<1>4. \A k \in DOMAIN ops : ops[k].gen \in Nat
  <2>1. \A k \in DOMAIN ops : ops[k] \in OpRecord
    BY Known
  <2> QED BY <2>1 DEF OpRecord
<1>5. \A k \in DOMAIN ops : ~LoadsPhoto(page, ops[k])
  <2> SUFFICES ASSUME NEW k \in DOMAIN ops, LoadsPhoto(page, ops[k]) PROVE FALSE
    OBVIOUS
  <2>1. k # i /\ ops[k].kind # "cancel" /\ ops[k].gen = page.importGeneration
    BY <1>3 DEF LoadsPhoto
  <2> QED BY <1>2, <1>3, <1>4, <2>1
<1>6. page.activeImportJobId = 0
  BY <1>1, <1>5 DEF ActiveJob
<1>7. \A k \in DOMAIN ops : k # i /\ ops[k].pgen # 0 => Aborted(page, ops[k])
  BY <1>1 DEF Gens, Aborted
<1> QED BY <1>2, <1>3, <1>5, <1>6, <1>7

LEMMA ShownKeeps ==
  ASSUME DocumentInv, NEW i \in DOMAIN ops, ops[i].pc = "opening", ~Aborted(page, ops[i]),
         ops[i].server = "activated", NEW x \in OpRecord, ops' = [ops EXCEPT ![i] = x],
         SameClaim(ops[i], x), x.job = ops[i].job, x.session = ops[i].session, x.token = ops[i].token,
         x.target = ops[i].target, x.read = ops[i].read, x.server = "shown", x.pc = "showing",
         page' \in PageRecord, SameGens(page, page'), page'.session = ops[i].session,
         page'.edits = ops[i].read.edits, page'.activeImportJobId = page.activeImportJobId,
         page'.gradeOpen = page.gradeOpen,
         UNCHANGED <<store, jobs, files, sessions, made, early, settled>>, left' \in Budget
  PROVE DocumentInv'
<1> DEFINE o == ops[i]
<1>1. ops[i].pc \in Begun
  BY DEF Begun
<1>2. /\ o \in OpRecord /\ o.kind = "project" /\ o.gen # 0 /\ o.pgen # 0 /\ Shape(o) /\ Serving(o)
      /\ OpFits(o, sessions, made, Len(jobs)) /\ o.server # "cleared late" /\ o.pc \in Past
      /\ page \in PageRecord /\ ops \in Seq(OpRecord) /\ PageFits(page, sessions, made, Len(jobs))
  BY <1>1, ProjectOperation, Known
<1>3. o.session \in Nat /\ o.read \in Content0 /\ o.target \in Projects \cup {None} /\ o.read.edits \subseteq 1..made
  BY <1>2 DEF OpRecord, Serving, OpFits
<1>7. /\ x.kind = "project" /\ x.gen = o.gen /\ x.pgen = o.pgen /\ x.parent = o.parent /\ x.job = o.job
      /\ x.session = o.session /\ x.token = o.token /\ x.target = o.target /\ x.read = o.read
      /\ x.server = "shown" /\ x.pc = "showing"
  BY <1>2 DEF SameClaim
<1>9. /\ page' \in PageRecord /\ SameGens(page, page') /\ page'.session = o.session /\ page'.edits = o.read.edits
      /\ page'.activeImportJobId = page.activeImportJobId /\ page'.gradeOpen = page.gradeOpen
  OBVIOUS
<1>10. OnlyOp(ops, ops', i) /\ ops'[i] = x
  BY <1>2 DEF OnlyOp
<1>11. DOMAIN ops' = DOMAIN ops /\ \A k \in DOMAIN ops : k # i => ops'[k] = ops[k]
  BY <1>10 DEF OnlyOp
<1>12. Shape(x) /\ Serving(x) /\ OpFits(x, sessions, made, Len(jobs))
  <2>1. Shape(x)
    BY <1>2, <1>7 DEF Shape, Asked, Loading, Begun, Saves, HasJob
  <2>2. Serving(x)
    BY <1>2, <1>7 DEF Serving
  <2>3. OpFits(x, sessions, made, Len(jobs))
    BY <1>2, <1>7 DEF OpFits
  <2> QED BY <2>1, <2>2, <2>3
<1>13. /\ \A k \in DOMAIN ops : ~LoadsPhoto(page, ops[k])
       /\ \A k \in DOMAIN ops : k # i /\ ops[k].pgen # 0 => Aborted(page, ops[k])
       /\ page.activeImportJobId = 0
  BY <1>2, NewestAlone
<1>14. ActiveJob(page', ops')
  <2>1. \A k \in DOMAIN ops' : ~LoadsPhoto(page', ops'[k])
    BY <1>7, <1>9, <1>10, <1>11, <1>13 DEF LoadsPhoto, SameGens
  <2>2. \A k \in DOMAIN ops' : ops'[k].pc = "dropping" => ops'[k].gen # page'.importGeneration
    BY <1>7, <1>9, <1>10, <1>11, Known DEF Claims, ActiveJob, SameGens
  <2> QED BY <1>9, <1>13, <2>1, <2>2 DEF ActiveJob
<1>15. Claims(page', ops')
  <2>1. SameClaim(ops[i], ops'[i]) /\ ~Waits(ops'[i]) /\ ops[i].pc # "saving"
    BY <1>2, <1>7, <1>10 DEF SameClaim, Waits
  <2>2. Shape(ops'[i]) /\ Serving(ops'[i]) /\ Claims(page, ops)
    BY <1>10, <1>12, Known
  <2> QED BY <1>2, <1>9, <1>10, <1>14, <2>1, <2>2, StepClaims
<1>16. Running(page', ops', jobs)
  <2>1. \A k \in DOMAIN ops : \A j : Launches(page, ops[k], j) => Launches(page', ops'[k], j)
    BY <1>2, <1>9, <1>11 DEF Launches, SameGens
  <2> QED BY <1>11, <2>1, Known DEF Running
<1>17. Answers(page', ops', store, jobs)
  <2>1. \A k \in DOMAIN ops' : k # i /\ ops'[k].pgen # 0 => Aborted(page', ops'[k])
    BY <1>9, <1>11, <1>13 DEF Aborted, SameGens
  <2> QED BY <1>7, <1>10, <2>1 DEF Answers, InBackend
<1>18. Shown(page', ops', store, jobs)
  <2>1. \/ o.session = store.session
        \/ \E k \in DOMAIN ops : k # i /\ HoldsIn(page, ops[k], store, jobs)
    BY <1>2, Known DEF Answers
  <2> QED BY <1>9, <1>11, <2>1 DEF Shown, HoldsIn, Stale, SameGens
<1>19. PageFits(page', sessions, made, Len(jobs))
  BY <1>2, <1>3, <1>9 DEF PageFits, OpFits, SameGens
<1>20. Good(page', ops', store, jobs, sessions, made)
  <2>1. \A k \in DOMAIN ops' : OpFits(ops'[k], sessions, made, Len(jobs))
    BY <1>10, <1>11, <1>12, Known
  <2> QED BY <1>9, <1>10, <1>15, <1>16, <1>17, <1>18, <1>19, <2>1 DEF Good, OnlyOp
<1>21. Backend'
  <2>1. jobs' \in Seq(JobRecord) /\ \A j \in DOMAIN jobs' : jobs'[j].session <= sessions
    BY Known DEF Backend
  <2> QED BY <1>10, <2>1, BackendJobs
<1>22. ops'[i].pc # "new"
  BY <1>7, <1>10
<1> QED BY <1>2, <1>10, <1>20, <1>21, <1>22, PastKeeps

LEMMA ShowsKeeps ==
  ASSUME DocumentInv, NEW i \in DOMAIN ops, ops[i].pc = "opening", ~Aborted(page, ops[i]),
         ops[i].server = "activated",
         page' = activateDesktopSession(page, ops[i].session, ops[i].read, ops[i].target),
         ops' = [ops EXCEPT ![i].server = "shown", ![i].pc = "showing"],
         UNCHANGED <<store, jobs, files, sessions, made, early, settled>>, left' \in Budget
  PROVE DocumentInv'
<1> DEFINE o == ops[i]
<1> DEFINE x == [o EXCEPT !.server = "shown", !.pc = "showing"]
<1> DEFINE a == activateDesktopSession(page, o.session, o.read, o.target)
<1>2. o \in OpRecord /\ o.kind = "project" /\ Serving(o) /\ page \in PageRecord /\ ops \in Seq(OpRecord)
  BY ProjectOperation, Known DEF Begun
<1>3. o.session \in Nat /\ o.read \in Content0 /\ o.target \in Projects \cup {None}
  BY <1>2 DEF OpRecord, Serving
<1>4. /\ a \in PageRecord /\ SameGens(page, a) /\ a.session = o.session /\ a.edits = o.read.edits
      /\ a.activeImportJobId = page.activeImportJobId /\ a.gradeOpen = page.gradeOpen
  BY <1>2, <1>3, Activated
<1>5. ops' = [ops EXCEPT ![i] = x] /\ page' = a
  BY <1>2
<1>6. x \in OpRecord
  BY <1>2 DEF OpRecord, PCs, Working, Servers
<1>7. /\ SameClaim(o, x) /\ x.job = o.job /\ x.session = o.session /\ x.token = o.token
      /\ x.target = o.target /\ x.read = o.read /\ x.server = "shown" /\ x.pc = "showing"
  BY <1>2 DEF OpRecord, SameClaim
<1> HIDE DEF x, a
<1> QED BY <1>4, <1>5, <1>6, <1>7, ShownKeeps

LEMMA OpenAnsweredKeeps ==
  ASSUME DocumentInv, NEW i \in DOMAIN ops, OpenAnswered(i)
  PROVE DocumentInv'
<1>1. /\ ops[i].pc = "opening" /\ UNCHANGED <<store, jobs, files, sessions, made, early, settled>>
      /\ left' \in Budget /\ ops[i].pc \in Begun /\ ops[i] \in OpRecord
  BY Known DEF OpenAnswered, Begun
<1>2. CASE Aborted(page, ops[i]) /\ Becomes(EndProject(page, ops, i))
  BY <1>1, <1>2, EndsKeeps
<1>3. CASE ~Aborted(page, ops[i]) /\ ops[i].server = "bad" /\ Becomes(EndProject(page, ops, i))
  BY <1>1, <1>3, EndsKeeps DEF InBackend
<1>4. CASE ~Aborted(page, ops[i]) /\ ops[i].server = "relink" /\ Goto(i, "relinking") /\ UNCHANGED page
  <2>1. "relinking" \in PCs /\ ops \in Seq(OpRecord)
    BY Known DEF PCs, Waiting
  <2>2. /\ OnlyOp(ops, ops', i) /\ Moves(ops[i], ops'[i], "relinking") /\ ops'[i] \in OpRecord
    BY <1>4, <2>1, Moved DEF Goto
  <2>3. ops' = [ops EXCEPT ![i] = ops'[i]]
    <3>1. ops' = [ops EXCEPT ![i].pc = "relinking"]
      BY <1>4 DEF Goto
    <3> QED BY <3>1, <2>1
  <2>4. /\ SameClaim(ops[i], ops'[i]) /\ ops'[i].session = ops[i].session /\ ops'[i].job = ops[i].job
        /\ ops'[i].token = ops[i].token /\ ops'[i].target = ops[i].target /\ ops'[i].read = ops[i].read
        /\ ops'[i].pc = "relinking" /\ ops'[i].server = "relink"
    BY <1>4, <2>2 DEF Moves
  <2> QED BY <1>1, <1>4, <2>2, <2>3, <2>4, BegunKeeps
<1>5. CASE /\ ~Aborted(page, ops[i]) /\ ops[i].server = "activated"
           /\ page' = activateDesktopSession(page, ops[i].session, ops[i].read, ops[i].target)
           /\ ops' = [ops EXCEPT ![i].server = "shown", ![i].pc = "showing"]
  BY <1>1, <1>5, ShowsKeeps
<1> QED BY <1>2, <1>3, <1>4, <1>5 DEF OpenAnswered

\* The first picture of what was installed is drawn, or failed.
LEMMA PresentedProject ==
  ASSUME DocumentInv, NEW i \in DOMAIN ops, ops[i].pc = "showing", ops[i].kind = "project",
         Becomes(EndProject([page EXCEPT !.grade = FALSE], ops, i)),
         UNCHANGED <<store, jobs, files, sessions, made, early, settled>>, left' \in Budget
  PROVE DocumentInv'
<1>1. /\ page \in PageRecord /\ PageFits(page, sessions, made, Len(jobs)) /\ Shape(ops[i]) /\ Serving(ops[i])
      /\ Early(page, ops, store, Unsaved)
  BY Known
<1> DEFINE b == [page EXCEPT !.grade = FALSE]
<1>2. /\ b \in PageRecord /\ SameGens(page, b) /\ b.session = page.session /\ b.edits = page.edits
      /\ b.dirty = page.dirty /\ b.gradeOpen = page.gradeOpen /\ ~b.grade /\ b.grade \in BOOLEAN
      /\ b.activeImportJobId = page.activeImportJobId
  BY <1>1 DEF PageRecord, SameGens
<1>3. /\ page' = b \/ page' = [b EXCEPT !.openDisabled = FALSE]
      /\ ops' = [ops EXCEPT ![i].pc = "done"]
  BY DEF Becomes, EndProject
<1> HIDE DEF b
<1>4. /\ page' \in PageRecord /\ SameGens(b, page') /\ SamePage(b, page')
      /\ page'.activeImportJobId = b.activeImportJobId
  BY <1>2, <1>3, EndedPage
<1>5. SameGens(page, page') /\ page'.session = page.session /\ page'.activeImportJobId = page.activeImportJobId
  BY <1>2, <1>4 DEF SameGens, SamePage
<1>6. PageFits(page', sessions, made, Len(jobs))
  BY <1>1, <1>2, <1>4, <1>5 DEF PageFits, SamePage, SameGens
<1>7. ASSUME NEW x, Moves(ops[i], x, "done")
      PROVE Shape(x)
  <2>1. x.kind = "project" /\ x.pc = "done" /\ x.gen # 0
    BY <1>1, <1>7 DEF Moves, SameClaim, Shape
  <2> QED BY <2>1 DEF Shape, Asked, Loading, Begun, Saves, HasJob
<1>8. "done" \in PCs /\ ops[i].server \notin InBackend
  BY <1>1 DEF PCs, Serving, InBackend
<1>9. /\ Good(page', ops', store, jobs, sessions, made) /\ OnlyOp(ops, ops', i)
      /\ Moves(ops[i], ops'[i], "done")
  BY <1>3, <1>4, <1>5, <1>6, <1>7, <1>8, HasStill, MovedGood
<1>10. Backend'
  <2>1. jobs' \in Seq(JobRecord) /\ \A j \in DOMAIN jobs' : jobs'[j].session <= sessions
    BY Known DEF Backend
  <2> QED BY <1>9, <2>1, BackendJobs
<1>11. Early(page', ops', store, Unsaved)
  <2> SUFFICES ASSUME Unsaved # {} PROVE Early(page', ops', store, Unsaved)
    BY NothingEarly
  <2>1. page.grade = FALSE
    BY <1>1 DEF Early, PageRecord
  <2>2. SamePage(page, page') /\ page'.importGeneration = page.importGeneration
    BY <1>2, <1>4, <1>5, <2>1 DEF SamePage, SameGens
  <2>3. MayWait(page', ops'[i], store, Unsaved)
    BY <1>9 DEF MayWait, Past, Loading, Begun, Moves
  <2> QED BY <1>1, <1>9, <2>2, <2>3, StepEarly
<1>12. \A k \in DOMAIN ops' : ops'[k].pc # "new"
  BY <1>9, Known DEF OnlyOp, Moves
<1> QED BY <1>9, <1>10, <1>11, <1>12, SameUnsaved, Assemble

LEMMA PresentedPhoto ==
  ASSUME DocumentInv, NEW i \in DOMAIN ops, ops[i].pc = "showing", ops[i].kind = "photo",
         ops' = [ops EXCEPT ![i].pc = "done"], page' \in PageRecord, SameGens(page, page'),
         PageFits(page', sessions, made, Len(jobs)),
         IF Stale(page, ops[i]) THEN page' = page
         ELSE page'.session \in {page.session, 0} /\ page'.activeImportJobId = 0,
         UNCHANGED <<store, jobs, files, sessions, made, early, settled>>, left' \in Budget
  PROVE DocumentInv'
<1>1. /\ ops[i] \in OpRecord /\ Shape(ops[i]) /\ Serving(ops[i]) /\ OpFits(ops[i], sessions, made, Len(jobs))
      /\ Good(page, ops, store, jobs, sessions, made) /\ ops \in Seq(OpRecord) /\ Len(jobs) \in Nat
      /\ Early(page, ops, store, Unsaved)
  BY Known
<1>2. OnlyOp(ops, ops', i) /\ Moves(ops[i], ops'[i], "done")
  BY <1>1, Moved DEF PCs
<1> DEFINE x == ops'[i]
<1> HIDE DEF x
<1>3. Moves(ops[i], x, "done") /\ ops'[i] = x
  BY <1>2 DEF x
<1>4. /\ ops[i].gen # 0 /\ x.pc = "done" /\ x.kind = "photo" /\ x.gen = ops[i].gen /\ x.gen # 0 /\ x.job = ops[i].job
      /\ ops[i].pgen = 0 /\ x.pgen = 0 /\ ops[i].server # "cleared late"
  BY <1>1, <1>3 DEF Moves, SameClaim, Shape, Serving
<1>5. Shape(x)
  BY <1>4 DEF Shape, Asked, Loading, Begun, Saves, HasJob
<1>6. Serving(x) /\ OpFits(x, sessions, made, Len(jobs))
  BY <1>1, <1>3, <1>4, MovedServes, MovedFits
<1>7. PhotoPage(page, page', store, ops[i], x)
  BY <1>4 DEF PhotoPage, Stale, Loading
<1>8. PhotoJobs(page, page', ops[i], x, jobs, jobs)
  <2> SUFFICES ASSUME NEW j \in DOMAIN jobs, jobs[j].state = "running", Launches(page, ops[i], j)
               PROVE Launches(page', x, j)
    BY DEF PhotoJobs
  <2>1. ops[i].gen # page.importGeneration
    BY DEF Launches
  <2> QED BY <1>4, <2>1 DEF Launches, Launched, SameGens
<1>9. Good(page', ops', store, jobs, sessions, made)
  <2>1. SameClaim(ops[i], ops'[i]) /\ ops'[i].server = ops[i].server
    BY <1>3 DEF Moves
  <2>2. StillHas(store, jobs, store, jobs) /\ Len(jobs) <= Len(jobs)
    BY <1>1, HasStill
  <2> QED BY <1>1, <1>2, <1>3, <1>4, <1>5, <1>6, <1>7, <1>8, <2>1, <2>2, PhotoGood
<1>10. Backend'
  <2>1. jobs' \in Seq(JobRecord) /\ \A j \in DOMAIN jobs' : jobs'[j].session <= sessions
    BY Known DEF Backend
  <2> QED BY <1>2, <2>1, BackendJobs
<1>11. Early(page', ops', store, Unsaved)
  <2> SUFFICES ASSUME Unsaved # {} PROVE Early(page', ops', store, Unsaved)
    BY NothingEarly
  <2>1. page' = page
    BY <1>1 DEF Early, MayWait
  <2>2. MayWait(page', ops'[i], store, Unsaved)
    BY <1>3, <1>4 DEF MayWait, Past, Loading, Begun
  <2>3. SamePage(page, page') /\ page'.importGeneration = page.importGeneration
    BY <2>1 DEF SamePage
  <2> QED BY <1>1, <1>2, <2>2, <2>3, StepEarly
<1>12. \A k \in DOMAIN ops' : ops'[k].pc # "new"
  BY <1>2, Known DEF OnlyOp, Moves
<1> QED BY <1>9, <1>10, <1>11, <1>12, SameUnsaved, Assemble

LEMMA PresentedKeeps ==
  ASSUME DocumentInv, NEW i \in DOMAIN ops, Presented(i)
  PROVE DocumentInv'
<1>1. ops[i].pc = "showing" /\ UNCHANGED <<store, jobs, files, sessions, made, early, settled>>
  BY DEF Presented
<1>2. left' \in Budget
  BY Spending, Known DEF Presented, Rests
<1>3. CASE ops[i].kind = "project" /\ Becomes(EndProject([page EXCEPT !.grade = FALSE], ops, i))
  BY <1>1, <1>2, <1>3, PresentedProject
<1>4. CASE ops[i].kind = "photo" /\ page' = (IF Stale(page, ops[i]) THEN page ELSE finishGradeOpen(page)) /\ Done(i)
  <2>1. ops' = [ops EXCEPT ![i].pc = "done"]
    BY <1>4 DEF Done, Goto
  <2>2. CASE Stale(page, ops[i])
    <3>1. page' = page /\ page \in PageRecord /\ SameGens(page, page) /\ PageFits(page, sessions, made, Len(jobs))
      BY <1>4, <2>2, Known DEF SameGens
    <3> QED BY <1>1, <1>2, <1>4, <2>1, <2>2, <3>1, PresentedPhoto
  <2>3. CASE ~Stale(page, ops[i])
    <3>1. page' = finishGradeOpen(page)
      BY <1>4, <2>3
    <3>2. /\ page' \in PageRecord /\ SameGens(page, page') /\ PageFits(page', sessions, made, Len(jobs))
          /\ page'.session = page.session /\ page'.activeImportJobId = 0
      BY <3>1, FinishedPage
    <3> QED BY <1>1, <1>2, <1>4, <2>1, <2>3, <3>2, PresentedPhoto
  <2> QED BY <2>2, <2>3
<1>5. CASE ops[i].kind = "photo" /\ PhotoFails(i)
  <2>1. /\ page' \in PageRecord /\ SameGens(page, page') /\ PageFits(page', sessions, made, Len(jobs))
        /\ IF Stale(page, ops[i]) THEN page' = page ELSE page'.session = 0 /\ page'.activeImportJobId = 0
    BY <1>5, FailedPage DEF PhotoFails
  <2>2. ops' = [ops EXCEPT ![i].pc = "done"]
    BY <1>5 DEF PhotoFails, Done, Goto
  <2> QED BY <1>1, <1>2, <1>5, <2>1, <2>2, PresentedPhoto
<1> QED BY <1>3, <1>4, <1>5 DEF Presented

LEMMA ClearedKeeps ==
  ASSUME DocumentInv, NEW i \in DOMAIN ops, Cleared(i)
  PROVE DocumentInv'
<1> DEFINE o == ops[i]
<1> DEFINE server == IF Stale(page, ops[i]) THEN "cleared late" ELSE o.server
<1> DEFINE x == [o EXCEPT !.pc = "done", !.server = server]
<1>1. /\ o.pc = "clearing" /\ UNCHANGED <<jobs, files, sessions, made, early, settled>> /\ left' \in Budget
      /\ store' = [store EXCEPT !.session = 0, !.doc = None, !.edits = {}]
      /\ page' = [Retire(page) EXCEPT !.path = None]
      /\ ops' = [ops EXCEPT ![i].pc = "done", ![i].server = server]
  BY Known DEF Cleared
<1>2. /\ o \in OpRecord /\ Shape(o) /\ Serving(o) /\ OpFits(o, sessions, made, Len(jobs)) /\ store \in StoreRecord
      /\ page \in PageRecord /\ ops \in Seq(OpRecord) /\ PageFits(page, sessions, made, Len(jobs))
      /\ Good(page, ops, store, jobs, sessions, made) /\ Claims(page, ops) /\ sessions \in Nat /\ made \in Nat
  BY Known
<1>3. o.kind = "eject" /\ o.gen # 0 /\ o.pgen = 0 /\ o.server = None
  <2>1. o.kind = "eject" /\ o.gen # 0 /\ o.pgen = 0
    BY <1>1, <1>2 DEF Shape, Begun
  <2>2. o.server \in Servers
    BY <1>2 DEF OpRecord
  <2> QED BY <1>1, <1>2, <2>1, <2>2 DEF Serving
<1>4. page' \in PageRecord
  <2>1. \A p \in PageRecord : [p EXCEPT !.session = 0, !.doc = None, !.edits = {}, !.dirty = FALSE, !.path = None]
                              \in PageRecord
    BY DEF PageRecord
  <2>2. page' = [page EXCEPT !.session = 0, !.doc = None, !.edits = {}, !.dirty = FALSE, !.path = None]
    BY <1>1, <1>2 DEF Retire, PageRecord
  <2> QED BY <1>2, <2>1, <2>2
<1>5. /\ SameGens(page, page') /\ page'.session = 0 /\ page'.edits = {} /\ page'.gradeOpen = page.gradeOpen
      /\ page'.activeImportJobId = page.activeImportJobId
  BY <1>1, <1>2 DEF Retire, PageRecord, SameGens
<1>6. server \in Servers /\ server \in {None, "cleared late"}
  BY <1>3 DEF Servers
<1>7. ops' = [ops EXCEPT ![i] = x]
  BY <1>1
<1> HIDE DEF server
<1>8. x \in OpRecord
  BY <1>2, <1>6 DEF OpRecord, PCs
<1>9. /\ x.kind = "eject" /\ x.gen = o.gen /\ x.pgen = 0 /\ x.parent = o.parent /\ x.job = o.job
      /\ x.session = o.session /\ x.token = o.token /\ x.target = o.target /\ x.read = o.read
      /\ x.server = server /\ x.pc = "done"
  BY <1>2, <1>3 DEF OpRecord
<1> HIDE DEF x, o
<1>10. OnlyOp(ops, ops', i) /\ ops'[i] = x
  BY <1>2, <1>7, <1>8 DEF OnlyOp
<1>11. DOMAIN ops' = DOMAIN ops /\ \A k \in DOMAIN ops : k # i => ops'[k] = ops[k]
  BY <1>10 DEF OnlyOp
<1>12. Shape(x) /\ Serving(x) /\ OpFits(x, sessions, made, Len(jobs))
  <2>1. Shape(x)
    BY <1>9 DEF Shape, Asked, Loading, Begun, Saves, HasJob
  <2>2. Serving(x)
    BY <1>6, <1>9 DEF Serving, None
  <2>3. OpFits(x, sessions, made, Len(jobs))
    BY <1>2, <1>6, <1>9 DEF OpFits, None
  <2> QED BY <2>1, <2>2, <2>3
<1>13. ActiveJob(page', ops') /\ Running(page', ops', jobs)
  <2>1. SameClaim(ops[i], ops'[i]) /\ Shape(ops'[i]) /\ ops[i].kind # "photo"
    BY <1>3, <1>9, <1>10, <1>12 DEF SameClaim, o
  <2>2. ActiveJob(page, ops) /\ Running(page, ops, jobs)
    BY <1>2, Known DEF Claims
  <2>3. page'.session \in {page.session, 0}
    BY <1>5
  <2> QED BY <1>5, <1>10, <2>1, <2>2, <2>3, StepJobs
<1>14. Claims(page', ops')
  <2>1. SameClaim(ops[i], ops'[i]) /\ ~Waits(ops'[i]) /\ ops[i].pc # "saving"
    BY <1>1, <1>3, <1>9, <1>10 DEF SameClaim, Waits, o
  <2> QED BY <1>2, <1>4, <1>5, <1>10, <1>12, <1>13, <2>1, StepClaims
<1>15. Shown(page', ops', store', jobs')
  BY <1>5 DEF Shown
<1>16. Answers(page', ops', store', jobs')
  <2>1. CASE Stale(page, ops[i])
    <3>1. HoldsIn(page', ops'[i], store', jobs')
      <4>1. store'.session = 0
        BY <1>1, <1>2 DEF StoreRecord
      <4> QED BY <1>9, <1>10, <2>1, <4>1 DEF HoldsIn, server
    <3>2. \A k \in DOMAIN ops' : ops'[k].pgen # 0 => k # i
      BY <1>9, <1>10
    <3>3. \A k \in DOMAIN ops : ~Aborted(page, ops[k]) /\ ops[k].pgen # 0 =>
            (ops[k].server \in InBackend => ops[k].pc = "opening")
      BY Known DEF Answers
    <3> QED BY <1>5, <1>11, <3>1, <3>2, <3>3 DEF Answers, Aborted, SameGens
  <2>2. CASE ~Stale(page, ops[i])
    <3>1. \A k \in DOMAIN ops : k # i /\ ops[k].pgen # 0 => Aborted(page, ops[k])
      <4> SUFFICES ASSUME NEW k \in DOMAIN ops, k # i, ops[k].pgen # 0, ~Aborted(page, ops[k]) PROVE FALSE
        OBVIOUS
      <4>1. ops[i].gen < ops[k].gen
        BY <1>3, NewestAlone DEF o
      <4>2. ops[k].gen <= page.importGeneration /\ ops[k] \in OpRecord
        BY <1>2 DEF Claims, Gens
      <4>3. ops[k].gen \in Nat /\ page.importGeneration \in Nat /\ ops[i].gen = page.importGeneration
        BY <1>2, <2>2, <4>2 DEF OpRecord, PageRecord, Stale
      <4> QED BY <4>1, <4>2, <4>3
    <3>2. \A k \in DOMAIN ops' : ops'[k].pgen # 0 => Aborted(page', ops'[k])
      BY <1>5, <1>9, <1>10, <1>11, <3>1 DEF Aborted, SameGens
    <3> QED BY <3>2 DEF Answers
  <2> QED BY <2>1, <2>2
<1>17. Good(page', ops', store', jobs, sessions, made)
  <2>1. \A k \in DOMAIN ops' : OpFits(ops'[k], sessions, made, Len(jobs))
    BY <1>10, <1>11, <1>12, Known
  <2>2. PageFits(page', sessions, made, Len(jobs))
    BY <1>2, <1>5 DEF PageFits, SameGens
  <2> QED BY <1>1, <1>4, <1>10, <1>13, <1>14, <1>15, <1>16, <2>1, <2>2 DEF Good, OnlyOp
<1>18. Backend'
  <2>1. store' \in StoreRecord /\ store'.session = 0 /\ store'.edits = {} /\ store'.holder = store.holder
    BY <1>1, <1>2 DEF StoreRecord
  <2>2. StoreFits(store', sessions, made, Len(ops'))
    BY <1>2, <1>10, <2>1, Known DEF StoreFits, Backend, OnlyOp
  <2> QED BY <1>1, <2>1, <2>2, Known DEF Backend
<1>19. ops[i].pc \in Past /\ ops'[i].pc # "new"
  BY <1>1, <1>9, <1>10 DEF Past, o
<1> QED BY <1>1, <1>10, <1>17, <1>18, <1>19, PastKeeps

-----------------------------------------------------------------------------
(* The backend.                                                               *)

\* The request of a project's open is served, whatever became of the open.
ServerStep(o, x) ==
  /\ SameClaim(o, x) /\ x.pc = o.pc /\ x.job = o.job /\ x.token = o.token /\ x.target = o.target

LEMMA ServedOperation ==
  ASSUME DocumentInv, NEW i \in DOMAIN ops, ops[i].server \in {"sent", "read", "holding"}
  PROVE /\ ops[i] \in OpRecord /\ ops[i].kind = "project" /\ ops[i].pgen # 0 /\ ops[i].gen # 0
        /\ Shape(ops[i]) /\ Serving(ops[i]) /\ OpFits(ops[i], sessions, made, Len(jobs))
        /\ ops[i].pc \in {"opening", "done"} /\ ~Waits(ops[i])
        /\ ~Aborted(page, ops[i]) => ops[i].pc = "opening"
<1>1. ops[i] \in OpRecord /\ Shape(ops[i]) /\ Serving(ops[i]) /\ OpFits(ops[i], sessions, made, Len(jobs))
  BY Known
<1>2. ops[i].kind = "project" /\ ops[i].pgen # 0
  BY <1>1 DEF Serving, Servers, None
<1>3. ops[i].pc \in {"opening", "done"}
  BY <1>1, <1>2 DEF Shape, Serving, Begun, None
<1>4. ~Aborted(page, ops[i]) => ops[i].pc = "opening"
  BY <1>2, Known DEF Answers, InBackend
<1> QED BY <1>1, <1>2, <1>3, <1>4 DEF Shape, Waits

LEMMA ServedShape ==
  ASSUME NEW o, NEW x, ServerStep(o, x), Shape(o), o.kind = "project"
  PROVE Shape(x)
BY DEF ServerStep, SameClaim, Shape, Saves, Asked

LEMMA ServedEarly ==
  ASSUME DocumentInv, NEW i \in DOMAIN ops, ops[i].pc \in {"opening", "done"}, NEW out, NEW st,
         OnlyOp(ops, out, i), ServerStep(ops[i], out[i]),
         (st.session = store.session /\ st.edits = store.edits) \/ st.session # page.session
  PROVE Early(page, out, st, Unsaved)
<1> SUFFICES ASSUME Unsaved # {} PROVE Early(page, out, st, Unsaved)
  BY DEF Early
<1>1. /\ Unsaved \subseteq page.edits /\ page.dirty /\ page.session # 0 /\ ~page.grade /\ page.gradeOpen = 0
      /\ \A k \in DOMAIN ops : MayWait(page, ops[k], store, Unsaved)
  BY Known DEF Early
<1>2. MayWait(page, out[i], st, Unsaved)
  <2>1. out[i].pc = ops[i].pc /\ ops[i].pc \notin Past
    BY <1>1 DEF ServerStep, MayWait
  <2> QED BY <2>1 DEF MayWait
<1>3. \A k \in DOMAIN ops : k # i => MayWait(page, out[k], st, Unsaved)
  BY <1>1 DEF MayWait, OnlyOp
<1> QED BY <1>1, <1>2, <1>3 DEF Early, OnlyOp

\* A step of the request that leaves the session alone.
LEMMA ServerKeeps ==
  ASSUME DocumentInv, NEW i \in DOMAIN ops, ops[i].server \in {"sent", "read", "holding"}, NEW x \in OpRecord,
         ops' = [ops EXCEPT ![i] = x], ServerStep(ops[i], x), x.session = ops[i].session,
         \/ ops[i].server = "sent" /\ x.server = "read" /\ x.read \in Content0 /\ x.read.edits \subseteq 1..made
         \/ ops[i].server = "read" /\ x.server = "holding" /\ x.read = ops[i].read
         \/ x.server \in {"bad", "relink"} /\ x.read = ops[i].read,
         store' \in StoreRecord, store'.session = store.session, store'.doc = store.doc,
         store'.edits = store.edits, store'.holder <= Len(ops), left' \in Budget,
         UNCHANGED <<page, jobs, files, sessions, made, early, settled>>
  PROVE DocumentInv'
<1>1. /\ ops[i] \in OpRecord /\ ops[i].kind = "project" /\ ops[i].pgen # 0 /\ Shape(ops[i]) /\ Serving(ops[i])
      /\ OpFits(ops[i], sessions, made, Len(jobs)) /\ ops[i].pc \in {"opening", "done"} /\ ~Waits(ops[i])
      /\ ~Aborted(page, ops[i]) => ops[i].pc = "opening"
  BY ServedOperation
<1>2. Shape(x) /\ x.kind = "project" /\ x.pgen # 0 /\ x.pc = ops[i].pc
  BY <1>1, ServedShape DEF ServerStep, SameClaim
<1>3. Serving(x)
  BY <1>1, <1>2 DEF Serving, ServerStep, Servers, None
<1>4. OpFits(x, sessions, made, Len(jobs))
  BY <1>1 DEF OpFits, ServerStep
<1>5. AnswersStep(page, ops[i], x) /\ ~Waits(x) /\ ops[i].pc # "saving" /\ SameClaim(ops[i], x)
  BY <1>1, <1>2 DEF AnswersStep, InBackend, Waits, ServerStep
<1>6. page \in PageRecord /\ SameGens(page, page) /\ PageFits(page, sessions, made, Len(jobs))
  BY Known DEF SameGens
<1>7. Good(page, ops', store', jobs, sessions, made) /\ OnlyOp(ops, ops', i) /\ ops'[i] = x
  BY <1>1, <1>2, <1>3, <1>4, <1>5, <1>6, HasStill, QuietGood
<1>8. Early(page, ops', store', Unsaved)
  BY <1>1, <1>7, ServedEarly
<1>9. Backend'
  BY <1>7, Known DEF Backend, StoreFits, OnlyOp
<1>10. \A k \in DOMAIN ops' : ops'[k].pc # "new"
  BY <1>1, <1>2, <1>7, Known DEF OnlyOp
<1> QED BY <1>7, <1>8, <1>9, <1>10, SameUnsaved, Assemble

\* The reading of the file, and the lock that the open then waits for.
LEMMA OpenProjectKeeps ==
  ASSUME DocumentInv, NEW i \in DOMAIN ops, open_project(i)
  PROVE DocumentInv'
<1>1. /\ ops[i].server = "sent" /\ UNCHANGED <<page, store, jobs, files, sessions, made, early, settled>>
      /\ ops[i] \in OpRecord /\ ops[i].kind = "project" /\ Serving(ops[i]) /\ store \in StoreRecord
      /\ ops \in Seq(OpRecord) /\ Len(ops) \in Nat /\ store.holder <= Len(ops)
  BY ServedOperation, Known DEF open_project, Backend, StoreFits
<1>2. CASE ops' = [ops EXCEPT ![i].server = "read", ![i].read = files[ops[i].target]] /\ UNCHANGED left
  <2> DEFINE read == files[ops[i].target]
  <2> DEFINE x == [ops[i] EXCEPT !.server = "read", !.read = read]
  <2>1. read \in Content0 /\ read.edits \subseteq 1..made
    BY <1>1, Known DEF Backend, Serving
  <2>2. ops' = [ops EXCEPT ![i] = x]
    BY <1>2
  <2> HIDE DEF read
  <2>3. x \in OpRecord
    BY <1>1, <2>1 DEF OpRecord, Servers
  <2>4. /\ ServerStep(ops[i], x) /\ x.session = ops[i].session /\ x.server = "read" /\ x.read = read
    BY <1>1 DEF OpRecord, ServerStep, SameClaim
  <2> HIDE DEF x
  <2>5. left' \in Budget
    BY <1>2, Known
  <2> QED BY <1>1, <2>1, <2>2, <2>3, <2>4, <2>5, ServerKeeps
<1>3. CASE Spend("faults") /\ ops' = [ops EXCEPT ![i].server = "bad"]
  <2> DEFINE x == [ops[i] EXCEPT !.server = "bad"]
  <2>1. ops' = [ops EXCEPT ![i] = x]
    BY <1>3
  <2>2. x \in OpRecord
    BY <1>1 DEF OpRecord, Servers
  <2>3. /\ ServerStep(ops[i], x) /\ x.session = ops[i].session /\ x.server = "bad" /\ x.read = ops[i].read
    BY <1>1 DEF OpRecord, ServerStep, SameClaim
  <2> HIDE DEF x
  <2>4. left' \in Budget
    BY <1>3, Spending, Known DEF Rests
  <2> QED BY <1>1, <2>1, <2>2, <2>3, <2>4, ServerKeeps
<1> QED BY <1>2, <1>3 DEF open_project

LEMMA OpenDocumentKeeps ==
  ASSUME DocumentInv, NEW i \in DOMAIN ops, open_document(i)
  PROVE DocumentInv'
<1>1. /\ ops[i].server = "read" /\ UNCHANGED <<page, jobs, files, left, sessions, made, early, settled>>
      /\ ops[i] \in OpRecord /\ store \in StoreRecord /\ store' = [store EXCEPT !.holder = i]
      /\ ops \in Seq(OpRecord) /\ Len(ops) \in Nat /\ left \in Budget
  BY ServedOperation, Known DEF open_document
<1> DEFINE x == [ops[i] EXCEPT !.server = "holding"]
<1>2. ops' = [ops EXCEPT ![i] = x]
  BY DEF open_document
<1>3. x \in OpRecord
  BY <1>1 DEF OpRecord, Servers
<1>4. ServerStep(ops[i], x) /\ x.session = ops[i].session /\ x.server = "holding" /\ x.read = ops[i].read
  BY <1>1 DEF OpRecord, ServerStep, SameClaim
<1> HIDE DEF x
<1>5. i \in Nat /\ i <= Len(ops)
  BY <1>1
<1>6. /\ store' \in StoreRecord /\ store'.session = store.session /\ store'.doc = store.doc
      /\ store'.edits = store.edits /\ store'.holder <= Len(ops)
  BY <1>1, <1>5 DEF StoreRecord
<1> QED BY <1>1, <1>2, <1>3, <1>4, <1>6, ServerKeeps

\* A new session fits where those before it did.
LEMMA MoreSessions ==
  ASSUME DocumentInv, NEW n, n = sessions + 1
  PROVE /\ n \in Nat /\ n # 0 /\ n # page.session /\ n # store.session /\ PageFits(page, n, made, Len(jobs))
        /\ \A k \in DOMAIN ops : OpFits(ops[k], n, made, Len(jobs))
        /\ \A j \in DOMAIN jobs : jobs[j].session <= n
<1>1. sessions \in Nat /\ page \in PageRecord /\ PageFits(page, sessions, made, Len(jobs)) /\ store \in StoreRecord
  BY Known
<1>2. page.session \in Nat /\ page.session <= sessions /\ store.session \in Nat /\ store.session <= sessions
  BY <1>1, Known DEF PageRecord, PageFits, StoreRecord, Backend, StoreFits
<1>3. ASSUME NEW k \in DOMAIN ops PROVE OpFits(ops[k], n, made, Len(jobs))
  <2>1. ops[k] \in OpRecord /\ OpFits(ops[k], sessions, made, Len(jobs))
    BY Known
  <2>2. ops[k].session \in Nat
    BY <2>1 DEF OpRecord
  <2> QED BY <1>1, <2>1, <2>2 DEF OpFits
<1>4. ASSUME NEW j \in DOMAIN jobs PROVE jobs[j].session <= n
  <2>1. jobs[j] \in JobRecord /\ jobs[j].session <= sessions
    BY Known DEF Backend
  <2>2. jobs[j].session \in Nat
    BY <2>1 DEF JobRecord
  <2> QED BY <1>1, <2>1, <2>2
<1> QED BY <1>1, <1>2, <1>3, <1>4 DEF PageFits

LEMMA ActivateKeeps ==
  ASSUME DocumentInv, NEW i \in DOMAIN ops, activate_session(i)
  PROVE DocumentInv'
<1> DEFINE o == ops[i]
<1>1. /\ ops[i].server = "holding" /\ UNCHANGED <<page, jobs, files, made, early, settled>>
      /\ o \in OpRecord /\ o.kind = "project" /\ Serving(o) /\ Shape(o) /\ store \in StoreRecord
      /\ ops \in Seq(OpRecord) /\ Len(ops) \in Nat /\ sessions \in Nat /\ made \in Nat /\ o.pgen # 0
      /\ o.pc \in {"opening", "done"} /\ ~Waits(o) /\ OpFits(o, sessions, made, Len(jobs))
      /\ ~Aborted(page, o) => o.pc = "opening"
  BY ServedOperation, Known DEF activate_session
<1>2. ASSUME NEW outcome \in {"bad", "relink"}, Spend("faults"), UNCHANGED sessions,
             ops' = [ops EXCEPT ![i].server = outcome], store' = [store EXCEPT !.holder = 0]
      PROVE DocumentInv'
  <2> DEFINE x == [o EXCEPT !.server = outcome]
  <2>1. ops' = [ops EXCEPT ![i] = x]
    BY <1>2
  <2>2. x \in OpRecord
    <3>1. outcome \in Servers
      BY DEF Servers
    <3> QED BY <1>1, <3>1 DEF OpRecord
  <2>3. /\ ServerStep(o, x) /\ x.session = o.session /\ x.server = outcome /\ x.read = o.read
    <3>1. /\ SameClaim(o, x) /\ x.pc = o.pc /\ x.job = o.job /\ x.token = o.token /\ x.target = o.target
          /\ x.session = o.session /\ x.server = outcome /\ x.read = o.read
      BY <1>1 DEF OpRecord, SameClaim
    <3> HIDE DEF x
    <3> QED BY <3>1 DEF ServerStep
  <2> HIDE DEF x
  <2>4. left' \in Budget
    BY <1>2, Spending, Known DEF Rests
  <2>5. /\ store' \in StoreRecord /\ store'.session = store.session /\ store'.doc = store.doc
        /\ store'.edits = store.edits /\ store'.holder <= Len(ops)
    <3>1. store' = [store EXCEPT !.holder = 0] /\ store \in StoreRecord
      BY <1>1, <1>2
    <3>2. 0 <= Len(ops)
      BY <1>1
    <3> QED BY <3>1, <3>2 DEF StoreRecord
  <2>6. x.server \in {"bad", "relink"} /\ ops[i].server \in {"sent", "read", "holding"}
    BY <1>1, <2>3
  <2> QED BY <1>1, <1>2, <2>1, <2>2, <2>3, <2>4, <2>5, <2>6, ServerKeeps
<1>3. CASE /\ sessions' = sessions + 1
           /\ store' = [session |-> sessions', doc |-> ops[i].read.doc,
                        edits |-> ops[i].read.edits, holder |-> 0]
           /\ ops' = [ops EXCEPT ![i].server = "activated", ![i].session = sessions']
           /\ UNCHANGED left
  <2> DEFINE n == sessions + 1
  <2> DEFINE x == [o EXCEPT !.server = "activated", !.session = n]
  <2>1. /\ n \in Nat /\ n # 0 /\ n # page.session /\ PageFits(page, n, made, Len(jobs))
        /\ \A k \in DOMAIN ops : OpFits(ops[k], n, made, Len(jobs))
        /\ \A j \in DOMAIN jobs : jobs[j].session <= n
    BY MoreSessions
  <2>2. ops' = [ops EXCEPT ![i] = x] /\ sessions' = n
    BY <1>3
  <2>3. o.read \in Content0 /\ o.read.edits \subseteq 1..made
    BY <1>1 DEF Serving, OpFits
  <2>4. /\ store' \in StoreRecord /\ store'.session = n /\ store'.edits = o.read.edits /\ store'.holder = 0
        /\ store'.doc \in Docs
    BY <1>3, <2>1, <2>3 DEF StoreRecord, Content0
  <2> HIDE DEF n
  <2>5. x \in OpRecord
    BY <1>1, <2>1 DEF OpRecord, Servers
  <2>6. ServerStep(o, x) /\ x.session = n /\ x.server = "activated" /\ x.read = o.read /\ x.kind = "project"
    BY <1>1 DEF OpRecord, ServerStep, SameClaim
  <2> HIDE DEF x, o
  <2>7. OnlyOp(ops, ops', i) /\ ops'[i] = x
    BY <1>1, <2>2, <2>5 DEF OnlyOp
  <2>8. DOMAIN ops' = DOMAIN ops /\ \A k \in DOMAIN ops : k # i => ops'[k] = ops[k]
    BY <2>7 DEF OnlyOp
  <2>9. Shape(x) /\ Serving(x) /\ OpFits(x, n, made, Len(jobs))
    <3>1. Shape(x)
      BY <1>1, <2>6, ServedShape
    <3>2. Serving(x)
      BY <1>1, <2>3, <2>6 DEF Serving, ServerStep, SameClaim
    <3>3. OpFits(x, n, made, Len(jobs))
      BY <1>1, <2>1, <2>3, <2>6 DEF OpFits, ServerStep
    <3> QED BY <3>1, <3>2, <3>3
  <2>10. SameClaim(ops[i], ops'[i]) /\ ~Waits(ops'[i]) /\ ops[i].pc # "saving" /\ ops[i].kind # "photo"
    BY <1>1, <2>6, <2>7 DEF ServerStep, SameClaim, Waits, o
  <2>11. page \in PageRecord /\ Claims(page, ops) /\ ActiveJob(page, ops) /\ Running(page, ops, jobs) /\ SameGens(page, page)
    BY Known DEF Claims, SameGens
  <2>12. ActiveJob(page, ops') /\ Running(page, ops', jobs)
    <3>1. page.session \in {page.session, 0} /\ Shape(ops'[i])
      BY <2>7, <2>9
    <3> QED BY <2>7, <2>10, <2>11, <3>1, StepJobs
  <2>13. Claims(page, ops')
    BY <1>1, <2>7, <2>9, <2>10, <2>11, <2>12, StepClaims
  <2>14. HoldsIn(page, ops'[i], store', jobs')
    BY <2>4, <2>6, <2>7 DEF HoldsIn
  <2>15. Shown(page, ops', store', jobs')
    BY <2>8, <2>14 DEF Shown
  <2>16. Answers(page, ops', store', jobs')
    <3> SUFFICES ASSUME NEW k \in DOMAIN ops', ~Aborted(page, ops'[k]) /\ ops'[k].pgen # 0
                 PROVE /\ ops'[k].server \in InBackend => ops'[k].pc = "opening"
                       /\ ops'[k].server = "activated" =>
                            \/ ops'[k].session = store'.session
                            \/ \E l \in DOMAIN ops' : l # k /\ HoldsIn(page, ops'[l], store', jobs')
      BY DEF Answers
    <3>1. CASE k = i
      BY <1>1, <2>4, <2>6, <2>7, <3>1 DEF ServerStep, SameClaim, Aborted, o
    <3>2. CASE k # i
      <4>1. ops'[k] = ops[k] /\ (ops[k].server \in InBackend => ops[k].pc = "opening")
        BY <2>8, <3>2, Known DEF Answers
      <4> QED BY <2>8, <2>14, <3>2, <4>1
    <3> QED BY <3>1, <3>2
  <2>17. Good(page, ops', store', jobs, n, made)
    <3>1. \A k \in DOMAIN ops' : OpFits(ops'[k], n, made, Len(jobs))
      BY <2>1, <2>7, <2>8, <2>9
    <3> QED BY <1>1, <2>1, <2>7, <2>11, <2>12, <2>13, <2>15, <2>16, <3>1 DEF Good, OnlyOp
  <2>18. Early(page, ops', store', Unsaved)
    <3>1. ServerStep(ops[i], ops'[i]) /\ ops[i].pc \in {"opening", "done"} /\ store'.session # page.session
      BY <1>1, <2>1, <2>4, <2>6, <2>7 DEF o
    <3> QED BY <2>7, <3>1, ServedEarly
  <2>19. Backend'
    <3>1. StoreFits(store', n, made, Len(ops'))
      BY <1>1, <2>1, <2>3, <2>4, <2>7 DEF StoreFits, OnlyOp
    <3> QED BY <1>1, <1>3, <2>1, <2>2, <2>4, <3>1, Known DEF Backend
  <2>20. \A k \in DOMAIN ops' : ops'[k].pc # "new"
    BY <1>1, <2>6, <2>7, Known DEF OnlyOp, ServerStep, o
  <2> QED BY <1>1, <2>2, <2>17, <2>18, <2>19, <2>20, SameUnsaved, Assemble
<1> QED BY <1>2, <1>3 DEF activate_session

\* A job that ends with a session: its photo waits for it, or was overtaken.
LEMMA JobEndsKeeps ==
  ASSUME DocumentInv, NEW j \in DOMAIN jobs, JobEnds(j)
  PROVE DocumentInv'
<1>1. /\ jobs[j].state = "running" /\ UNCHANGED <<page, ops, files, made, early, settled>>
      /\ jobs[j] \in JobRecord /\ jobs \in Seq(JobRecord) /\ store \in StoreRecord /\ sessions \in Nat /\ made \in Nat
      /\ Good(page, ops, store, jobs, sessions, made)
  BY Known DEF JobEnds
<1>2. CASE /\ Spend("faults") /\ jobs' = [jobs EXCEPT ![j].state = "error"]
           /\ UNCHANGED <<store, sessions>>
  <2> DEFINE x == [jobs[j] EXCEPT !.state = "error"]
  <2>1. jobs' = [jobs EXCEPT ![j] = x]
    BY <1>2
  <2>2. x \in JobRecord /\ x.state = "error" /\ x.session = jobs[j].session
    BY <1>1 DEF JobRecord
  <2> HIDE DEF x
  <2>3. /\ jobs' \in Seq(JobRecord) /\ Len(jobs') = Len(jobs) /\ DOMAIN jobs' = DOMAIN jobs
        /\ jobs'[j] = x /\ \A l \in DOMAIN jobs : l # j => jobs'[l] = jobs[l]
    BY <1>1, <2>1, <2>2
  <2>4. \A l \in DOMAIN jobs' : jobs'[l].state = "running" => jobs[l].state = "running"
    BY <1>1, <2>2, <2>3
  <2>5. Good(page, ops, store, jobs', sessions, made)
    <3>1. StillHas(store, jobs, store, jobs')
      BY <1>1, <2>3 DEF StillHas
    <3> QED BY <1>1, <2>3, <2>4, <3>1, JobsGood
  <2>6. left' \in Budget
    BY <1>2, Spending, Known DEF Rests
  <2>7. Backend'
    BY <1>1, <1>2, <2>2, <2>3, <2>6, Known DEF Backend
  <2> QED BY <1>1, <1>2, <2>5, <2>7, SameUnsaved, Known, Assemble
<1>3. CASE /\ sessions' = sessions + 1
           /\ store' = [store EXCEPT !.session = sessions', !.doc = jobs[j].doc, !.edits = {}]
           /\ jobs' = [jobs EXCEPT ![j].state = "ready", ![j].session = sessions']
           /\ UNCHANGED left
  <2> DEFINE n == sessions + 1
  <2> DEFINE x == [jobs[j] EXCEPT !.state = "ready", !.session = n]
  <2>1. /\ n \in Nat /\ n # 0 /\ n # page.session /\ PageFits(page, n, made, Len(jobs))
        /\ \A k \in DOMAIN ops : OpFits(ops[k], n, made, Len(jobs))
        /\ \A l \in DOMAIN jobs : jobs[l].session <= n
    BY MoreSessions
  <2>2. jobs' = [jobs EXCEPT ![j] = x] /\ sessions' = n
    BY <1>3
  <2>3. store' = [store EXCEPT !.session = n, !.doc = jobs[j].doc, !.edits = {}]
    BY <1>3
  <2> HIDE DEF n
  <2>4. x \in JobRecord /\ x.state = "ready" /\ x.session = n
    BY <1>1, <2>1 DEF JobRecord
  <2> HIDE DEF x
  <2>5. /\ jobs' \in Seq(JobRecord) /\ Len(jobs') = Len(jobs) /\ DOMAIN jobs' = DOMAIN jobs
        /\ jobs'[j] = x /\ \A l \in DOMAIN jobs : l # j => jobs'[l] = jobs[l]
    BY <1>1, <2>2, <2>4
  <2>6. jobs[j].doc \in Photos
    BY <1>1 DEF JobRecord
  <2>7. /\ store' \in StoreRecord /\ store'.session = n /\ store'.edits = {} /\ store'.doc \in Docs
        /\ store'.holder = store.holder
    BY <1>1, <2>1, <2>3, <2>6 DEF StoreRecord, Docs
  <2>8. PICK i \in DOMAIN ops : Launches(page, ops[i], j)
    BY <1>1, Known DEF Running
  <2>9. /\ ops[i].kind = "photo" /\ ops[i].job = j /\ ops[i].pc \in Launched /\ j # 0 /\ ops[i].pgen = 0
    <3>1. ops[i].kind = "photo" /\ ops[i].job = j /\ ops[i].pc \in Launched
      BY <2>8 DEF Launches
    <3>2. Shape(ops[i]) /\ j # 0
      BY <1>1, Known
    <3>3. ops[i] \in OpRecord
      BY Known
    <3> QED BY <3>1, <3>2, <3>3 DEF Shape
  <2>10. \A k \in DOMAIN ops : ~Aborted(page, ops[k]) /\ ops[k].pgen # 0 =>
           (ops[k].server \in InBackend => ops[k].pc = "opening")
    BY Known DEF Answers
  <2>11. Shown(page, ops, store', jobs') /\ Answers(page, ops, store', jobs')
    <3>1. CASE Stale(page, ops[i])
      <4>1. HoldsIn(page, ops[i], store', jobs')
        BY <2>4, <2>5, <2>7, <2>9, <3>1 DEF HoldsIn
      <4> QED BY <2>9, <2>10, <4>1 DEF Shown, Answers
    <3>2. CASE ~Stale(page, ops[i])
      <4>1. ops[i].pc \in {"created", "polling"} /\ ops[i].gen = page.importGeneration
        BY <2>8, <3>2 DEF Launches, Stale
      <4>2. LoadsPhoto(page, ops[i])
        BY <2>9, <4>1 DEF LoadsPhoto, Loading
      <4>3. page.session = 0
        BY <4>2, Known DEF Claims, ActiveJob
      <4>4. \A k \in DOMAIN ops : ops[k].pgen # 0 => Aborted(page, ops[k])
        BY <4>2, NewestAlone
      <4> QED BY <4>3, <4>4 DEF Shown, Answers
    <3> QED BY <3>1, <3>2
  <2>12. Running(page, ops, jobs')
    BY <2>4, <2>5, Known DEF Running
  <2>13. Good(page, ops, store', jobs', n, made)
    BY <1>1, <2>1, <2>5, <2>11, <2>12 DEF Good
  <2>14. Early(page, ops, store', Unsaved)
    <3>1. Early(page, ops, store, Unsaved)
      BY Known
    <3> QED BY <2>1, <2>7, <3>1 DEF Early, MayWait
  <2>15. Backend'
    <3>1. StoreFits(store', n, made, Len(ops'))
      BY <1>1, <2>1, <2>7, Known DEF StoreFits, Backend
    <3>2. \A l \in DOMAIN jobs' : jobs'[l].session <= n
      BY <2>1, <2>4, <2>5
    <3> QED BY <1>1, <1>3, <2>1, <2>2, <2>5, <2>7, <3>1, <3>2, Known DEF Backend
  <2> QED BY <1>1, <2>2, <2>13, <2>14, <2>15, SameUnsaved, Known, Assemble
<1> QED BY <1>2, <1>3 DEF JobEnds

LEMMA EditArrivesKeeps ==
  ASSUME DocumentInv, EditArrives
  PROVE DocumentInv'
<1>1. /\ UNCHANGED <<page, ops, jobs, files, left, sessions, made, early, settled>>
      /\ store' = [store EXCEPT !.edits = page.edits] /\ store \in StoreRecord /\ page \in PageRecord
      /\ Good(page, ops, store, jobs, sessions, made) /\ sessions \in Nat /\ made \in Nat /\ jobs \in Seq(JobRecord)
      /\ PageFits(page, sessions, made, Len(jobs))
  BY Known DEF EditArrives
<1>2. page.edits \in SUBSET Nat /\ page.edits \subseteq 1..made
  BY <1>1 DEF PageRecord, PageFits
<1>3. /\ store' \in StoreRecord /\ store'.session = store.session /\ store'.doc = store.doc
      /\ store'.edits = page.edits /\ store'.holder = store.holder
  BY <1>1, <1>2 DEF StoreRecord
<1>4. Good(page, ops, store', jobs, sessions, made)
  <2>1. SameGens(page, page) /\ sessions <= sessions /\ made <= made
    BY <1>1 DEF SameGens
  <2> QED BY <1>1, <1>3, <2>1, PageGood
<1>5. Early(page, ops, store', Unsaved)
  BY <1>3, Known DEF Early, MayWait
<1>6. Backend'
  BY <1>1, <1>2, <1>3, Known DEF Backend, StoreFits
<1> QED BY <1>1, <1>4, <1>5, <1>6, SameUnsaved, Known, Assemble

-----------------------------------------------------------------------------
(* Saves, and the transitions that wait for them.                             *)

\* An operation is over: it waits for nothing and claims nothing.
LEMMA DoneGood ==
  ASSUME NEW pg, NEW os, NEW st, NEW js, NEW s, NEW m, Good(pg, os, st, js, s, m), NEW i \in DOMAIN os,
         os[i].pc \in Saves \cup Asked,
         os[i].pc = "saving" => \A k \in DOMAIN os : k # i /\ Waits(os[k]) => os[k].parent # i
  PROVE LET out == [os EXCEPT ![i].pc = "done"] IN
        Good(pg, out, st, js, s, m) /\ OnlyOp(os, out, i) /\ Moves(os[i], out[i], "done")
<1> DEFINE out == [os EXCEPT ![i].pc = "done"]
<1>1. /\ pg \in PageRecord /\ os \in Seq(OpRecord) /\ os[i] \in OpRecord /\ Shape(os[i]) /\ Serving(os[i])
      /\ OpFits(os[i], s, m, Len(js)) /\ PageFits(pg, s, m, Len(js))
  BY DEF Good, Claims, Shapes
<1>2. OnlyOp(os, out, i) /\ Moves(os[i], out[i], "done")
  BY <1>1, Moved DEF PCs
<1> HIDE DEF out
<1>3. os[i].pgen = 0 /\ os[i].kind \in Opens \cup {"save"} /\ (os[i].kind = "save" <=> os[i].pc \in Saves)
      /\ (os[i].kind = "photo" => os[i].pc \in Asked)
  <2>1. CASE os[i].pc \in Saves
    BY <1>1, <2>1 DEF Shape, Saves, Begun, Opens
  <2>2. CASE os[i].pc \in Asked
    BY <1>1, <2>2 DEF Shape, Asked, Begun, Opens, Saves
  <2> QED BY <2>1, <2>2
<1>4. os[i].server = None
  <2>1. os[i].server \in Servers /\ os[i].pc # "done"
    BY <1>1 DEF OpRecord, Saves, Asked
  <2> QED BY <1>1, <1>3, <2>1 DEF Serving
<1>5. SameClaim(os[i], out[i]) /\ out[i].pc = "done" /\ out[i].job = os[i].job /\ out[i].server = None
      /\ out[i].kind = os[i].kind /\ out[i].pgen = 0
  BY <1>2, <1>3, <1>4 DEF Moves, SameClaim
<1>6. Shape(out[i])
  BY <1>5 DEF Shape, Asked, Loading, Begun, Saves, HasJob
<1>7. Serving(out[i]) /\ OpFits(out[i], s, m, Len(js))
  <2>1. os[i].server # "cleared late"
    BY <1>4 DEF None
  <2>2. "done" \notin {"starting", "relinking", "showing"}
    OBVIOUS
  <2>3. Serving(out[i])
    BY <1>1, <1>2, <2>1, <2>2, MovedServes
  <2>4. OpFits(out[i], s, m, Len(js))
    BY <1>1, <1>2, MovedFits
  <2> QED BY <2>3, <2>4
<1>8. AnswersStep(pg, os[i], out[i]) /\ ~Waits(out[i])
  BY <1>4, <1>5 DEF AnswersStep, InBackend, None, Waits
<1>9. Good(pg, out, st, js, s, m)
  <2>1. SameGens(pg, pg) /\ pg.session \in {pg.session, 0}
    BY DEF SameGens
  <2>2. CASE os[i].kind # "photo"
    BY <1>1, <1>2, <1>5, <1>6, <1>7, <1>8, <2>1, <2>2, StepGood
  <2>3. CASE os[i].kind = "photo"
    <3>1. /\ Claims(pg, os) /\ ActiveJob(pg, os) /\ Running(pg, os, js) /\ Shown(pg, os, st, js) /\ Answers(pg, os, st, js)
          /\ os[i].gen = 0 /\ os[i].job = 0
      BY <1>1, <1>3, <2>3 DEF Good, Claims, Shape
    <3>2. DOMAIN out = DOMAIN os /\ \A k \in DOMAIN os : k # i => out[k] = os[k]
      BY <1>2 DEF OnlyOp
    <3>3. \A k \in DOMAIN os : LoadsPhoto(pg, out[k]) <=> LoadsPhoto(pg, os[k]) /\ k # i
      <4>1. os[i].pc \notin Loading /\ out[i].pc \notin Loading
        BY <1>3, <1>5, <2>3 DEF Asked, Loading
      <4> QED BY <3>2, <4>1 DEF LoadsPhoto
    <3>4. ActiveJob(pg, out)
      <4>1. ~LoadsPhoto(pg, os[i])
        BY <1>3, <2>3 DEF LoadsPhoto, Asked, Loading
      <4>2. \A k \in DOMAIN os : LoadsPhoto(pg, os[k]) => out[k] = os[k] /\ LoadsPhoto(pg, out[k])
        BY <3>2, <3>3, <4>1
      <4>3. \A k \in DOMAIN out : LoadsPhoto(pg, out[k]) => out[k] = os[k] /\ LoadsPhoto(pg, os[k])
        BY <3>2, <3>3
      <4>4. \A k \in DOMAIN out : out[k].pc = "dropping" => out[k] = os[k]
        BY <1>5, <3>2
      <4> QED BY <3>1, <3>2, <4>2, <4>3, <4>4 DEF ActiveJob
    <3>5. Running(pg, out, js)
      <4>1. \A j : ~Launches(pg, os[i], j)
        BY <1>3, <2>3 DEF Launches, Asked, Launched, HasJob
      <4>2. \A k \in DOMAIN os : \A j : Launches(pg, os[k], j) => Launches(pg, out[k], j)
        BY <3>2, <4>1
      <4> QED BY <3>1, <3>2, <4>2 DEF Running
    <3>6. Claims(pg, out)
      BY <1>1, <1>2, <1>5, <1>6, <1>7, <1>8, <2>1, <3>1, <3>4, StepClaims
    <3>7. StillHolds(pg, os, pg, out) /\ Answers(pg, out, st, js)
      BY <1>2, <1>5, <1>8, <2>1, <3>1, StepAnswers
    <3>8. Shown(pg, out, st, js)
      BY <2>1, <3>1, <3>7, HasStill, ShownKept
    <3>9. \A k \in DOMAIN out : OpFits(out[k], s, m, Len(js))
      BY <1>7, <3>2 DEF Good
    <3> QED BY <1>1, <1>2, <3>4, <3>5, <3>6, <3>7, <3>8, <3>9 DEF Good, OnlyOp
  <2> QED BY <2>2, <2>3
<1> QED BY <1>2, <1>9 DEF out

\* What the end of a save leaves.
SameEnds(os, out) == out \in Seq(OpRecord) /\ DOMAIN out = DOMAIN os /\ Len(out) = Len(os)

LEMMA FinishGood ==
  ASSUME NEW pg, NEW os, NEW st, NEW js, NEW s \in Nat, NEW m \in Nat, js \in Seq(JobRecord),
         Good(pg, os, st, js, s, m), NEW i \in DOMAIN os, os[i].pc \in Saves, NEW saved \in BOOLEAN,
         \A k \in DOMAIN os : os[k].pc # "new", NEW U, Early(pg, os, st, U), saved => U = {}
  PROVE LET r == Finish(pg, os, i, saved) IN
        /\ Good(r.page, r.ops, st, js, s, m) /\ SameEnds(os, r.ops) /\ \A k \in DOMAIN os : r.ops[k].pc # "new"
        /\ Early(r.page, r.ops, st, U)
<1> DEFINE ended == [os EXCEPT ![i].pc = "done"]
<1> DEFINE parent == os[i].parent
<1> DEFINE r == Finish(pg, os, i, saved)
<1>1. /\ os \in Seq(OpRecord) /\ Parents(os) /\ Shape(os[i]) /\ os[i].pc # "saving"
  BY DEF Good, Claims, Shapes, Saves
<1>2. Good(pg, ended, st, js, s, m) /\ OnlyOp(os, ended, i) /\ Moves(os[i], ended[i], "done")
  BY <1>1, DoneGood
<1> HIDE DEF ended
<1>3. DOMAIN ended = DOMAIN os /\ Len(ended) = Len(os) /\ \A k \in DOMAIN os : k # i => ended[k] = os[k]
  BY <1>2 DEF OnlyOp
<1>4. ended[i].pc = "done" /\ ended \in Seq(OpRecord) /\ \A k \in DOMAIN os : ended[k].pc # "new"
  BY <1>2, <1>3 DEF Moves, OnlyOp
<1>5. Early(pg, ended, st, U)
  <2>1. MayWait(pg, ended[i], st, U)
    BY <1>4 DEF MayWait, Past, Loading, Begun
  <2> QED BY <1>2, <2>1, StepEarly DEF SamePage
<1>6. CASE parent = 0
  <2>1. r.page = pg /\ r.ops = ended
    BY <1>6 DEF Finish, ended
  <2> HIDE DEF r
  <2>2. Good(r.page, r.ops, st, js, s, m) /\ Early(r.page, r.ops, st, U)
    BY <1>2, <1>5, <2>1
  <2>3. SameEnds(os, r.ops) /\ \A k \in DOMAIN os : r.ops[k].pc # "new"
    BY <1>3, <1>4, <2>1 DEF SameEnds
  <2> QED BY <2>2, <2>3 DEF r
<1>7. parent # 0 => /\ parent \in DOMAIN ended /\ ended[parent].pc = "saving"
                    /\ \A k \in DOMAIN ended : k # parent /\ Waits(ended[k]) => ended[k].parent # parent
  <2>1. Waits(os[i]) /\ ~Waits(ended[i])
    BY <1>1, <1>4 DEF Waits, Shape, Saves
  <2>2. parent # 0 => /\ parent \in DOMAIN os /\ os[parent].pc = "saving"
                      /\ \A k \in DOMAIN os : k # i /\ Waits(os[k]) => os[k].parent # parent
    BY <1>1, <2>1 DEF Parents
  <2> QED BY <1>1, <1>3, <2>1, <2>2
<1>8. CASE parent # 0 /\ saved
  <2> DEFINE c == Continue(pg, ended, parent)
  <2>1. r = c
    BY <1>8 DEF Finish, ended
  <2>2. parent \in DOMAIN ended /\ ended[parent].pc \in Asked
    BY <1>7, <1>8 DEF Asked
  <2>3. /\ Good(c.page, c.ops, st, js, s, m) /\ OnlyOp(ended, c.ops, parent) /\ c.ops[parent].pc # "new"
    BY <1>2, <1>7, <1>8, <2>2, ContinueGood
  <2> HIDE DEF r, c, parent
  <2>4. SameEnds(os, r.ops) /\ \A k \in DOMAIN os : r.ops[k].pc # "new"
    BY <1>3, <1>4, <2>1, <2>3 DEF OnlyOp, SameEnds
  <2>5. Early(r.page, r.ops, st, U)
    BY <1>8, NothingEarly
  <2> QED BY <2>1, <2>3, <2>4, <2>5 DEF r
<1>9. CASE parent # 0 /\ ~saved
  <2> DEFINE out == [ended EXCEPT ![parent].pc = "done"]
  <2>1. r.page = pg /\ r.ops = out
    BY <1>9 DEF Finish, ended
  <2>2. parent \in DOMAIN ended /\ ended[parent].pc \in Saves \cup Asked
    BY <1>7, <1>9 DEF Asked
  <2>3. Good(pg, out, st, js, s, m) /\ OnlyOp(ended, out, parent) /\ Moves(ended[parent], out[parent], "done")
    BY <1>2, <1>7, <1>9, <2>2, DoneGood
  <2> HIDE DEF r, out, parent
  <2>4. SameEnds(os, r.ops) /\ \A k \in DOMAIN os : r.ops[k].pc # "new"
    BY <1>3, <1>4, <2>1, <2>3 DEF OnlyOp, SameEnds, Moves
  <2>5. Early(r.page, r.ops, st, U)
    <3>1. MayWait(pg, out[parent], st, U)
      BY <2>3 DEF MayWait, Past, Loading, Begun, Moves
    <3> QED BY <1>5, <2>1, <2>2, <2>3, <3>1, StepEarly DEF SamePage
  <2> QED BY <2>1, <2>3, <2>4, <2>5 DEF r
<1> QED BY <1>6, <1>8, <1>9


LEMMA SaveKnown ==
  ASSUME DocumentInv, NEW i \in DOMAIN ops, ops[i].pc \in Saves
  PROVE /\ ops[i] \in OpRecord /\ ops[i].kind = "save" /\ ops[i].gen = 0 /\ ops[i].pgen = 0 /\ ops[i].server = None
        /\ ops[i].target \in Projects \cup {None} /\ ops[i].session \in Nat /\ ops[i].pc \notin Asked
        /\ ops[i].job \in Nat /\ Waits(ops[i]) /\ OpFits(ops[i], sessions, made, Len(jobs))
<1>1. ops[i] \in OpRecord /\ Shape(ops[i]) /\ Serving(ops[i]) /\ OpFits(ops[i], sessions, made, Len(jobs))
  BY Known
<1>2. ops[i].kind = "save" /\ ops[i].pc \notin Asked /\ ops[i].pc \notin Begun \cup {"done"}
  BY <1>1 DEF Shape, Saves, Asked, Begun
<1>3. ops[i].pgen = 0 /\ ops[i].gen = 0 /\ ops[i].target \in Projects \cup {None}
  BY <1>1, <1>2 DEF Shape, Serving
<1>4. ops[i].server \in Servers /\ ops[i].session \in Nat /\ ops[i].job \in Nat
  BY <1>1 DEF OpRecord
<1>5. ops[i].server = None
  BY <1>1, <1>2, <1>4 DEF Serving
<1> QED BY <1>1, <1>2, <1>3, <1>4, <1>5 DEF Waits

\* A save goes on: it learns a path, or which session it will write.
LEMMA SaveStep ==
  ASSUME DocumentInv, NEW i \in DOMAIN ops, ops[i].pc \in Saves, NEW x \in OpRecord,
         ops' = [ops EXCEPT ![i] = x], SameClaim(ops[i], x), x.job = ops[i].job, x.token = ops[i].token,
         x.server = ops[i].server, x.pc \in Saves, x.session \in {ops[i].session, page.session},
         x.pc \in {"writing", "written"} => x.session # 0, x.target \in Projects \cup {None},
         NEW st, st.session = store.session
  PROVE /\ Good(page, ops', st, jobs, sessions, made) /\ OnlyOp(ops, ops', i) /\ ops'[i] = x
        /\ \A k \in DOMAIN ops' : ops'[k].pc # "new"
<1>1. /\ ops[i].kind = "save" /\ ops[i].gen = 0 /\ ops[i].pgen = 0 /\ ops[i].server = None /\ ops[i].pc \notin Asked
      /\ Waits(ops[i]) /\ OpFits(ops[i], sessions, made, Len(jobs))
  BY SaveKnown
<1>2. page \in PageRecord /\ PageFits(page, sessions, made, Len(jobs)) /\ SameGens(page, page)
  BY Known DEF SameGens
<1>3. x.kind = "save" /\ x.gen = 0 /\ x.pgen = 0 /\ x.server = None
  BY <1>1 DEF SameClaim
<1>4. Shape(x)
  BY <1>3 DEF Shape, Saves, Asked, Loading, Begun, HasJob
<1>5. Serving(x)
  BY <1>3 DEF Serving, None, Saves
<1>6. OpFits(x, sessions, made, Len(jobs))
  BY <1>1, <1>2, <1>3 DEF OpFits, PageFits, None
<1>7. AnswersStep(page, ops[i], x)
  BY <1>1, <1>3 DEF AnswersStep, InBackend, None
<1>8. ops[i].pc # "saving"
  BY <1>1 DEF Asked
<1>9. Good(page, ops', st, jobs, sessions, made) /\ OnlyOp(ops, ops', i) /\ ops'[i] = x
  BY <1>1, <1>2, <1>4, <1>5, <1>6, <1>7, <1>8, HasStill, QuietGood
<1>10. \A k \in DOMAIN ops' : ops'[k].pc # "new"
  BY <1>9, Known DEF OnlyOp, Saves
<1> QED BY <1>9, <1>10

\* A save that ends without saving leaves its transition where it was, or over.
LEMMA GivenUp ==
  ASSUME DocumentInv, NEW i \in DOMAIN ops, ops[i].pc \in Saves, Becomes(Finish(page, ops, i, FALSE)),
         UNCHANGED <<store, jobs, files, sessions, made, early, settled>>, left' \in Budget
  PROVE DocumentInv'
<1> DEFINE r == Finish(page, ops, i, FALSE)
<1>1. /\ Good(page, ops, store, jobs, sessions, made) /\ sessions \in Nat /\ made \in Nat /\ jobs \in Seq(JobRecord)
      /\ Early(page, ops, store, Unsaved) /\ \A k \in DOMAIN ops : ops[k].pc # "new"
  BY Known
<1>2. /\ Good(r.page, r.ops, store, jobs, sessions, made) /\ SameEnds(ops, r.ops)
      /\ \A k \in DOMAIN ops : r.ops[k].pc # "new"
      /\ Early(r.page, r.ops, store, Unsaved)
  BY <1>1, FinishGood
<1>3. page' = r.page /\ ops' = r.ops
  BY DEF Becomes
<1> HIDE DEF r
<1>4. Backend'
  <2>1. Len(ops) \in Nat /\ Len(ops') = Len(ops)
    BY <1>2, <1>3, Known DEF SameEnds
  <2> QED BY <2>1, Known, BackendKept
<1> QED BY <1>2, <1>3, <1>4, SameUnsaved, Assemble DEF SameEnds

LEMMA PathChosenKeeps ==
  ASSUME DocumentInv, NEW i \in DOMAIN ops, PathChosen(i)
  PROVE DocumentInv'
<1>1. /\ ops[i].pc = "path" /\ ops[i].pc \in Saves /\ UNCHANGED <<store, jobs, files, sessions, made, early, settled>>
      /\ left' \in Budget
  BY Known DEF PathChosen, Saves
<1>2. CASE Becomes(Finish(page, ops, i, FALSE))
  BY <1>1, <1>2, GivenUp
<1>3. ASSUME NEW p \in Projects, page.session # 0, UNCHANGED page,
             ops' = [ops EXCEPT ![i].target = p, ![i].session = page.session, ![i].pc = "writing"]
      PROVE DocumentInv'
  <2> DEFINE x == [ops[i] EXCEPT !.target = p, !.session = page.session, !.pc = "writing"]
  <2>1. ops' = [ops EXCEPT ![i] = x]
    BY <1>3
  <2>2. ops[i] \in OpRecord /\ page.session \in Nat
    BY <1>1, SaveKnown, Known DEF PageRecord
  <2>3. x \in OpRecord
    BY <2>2 DEF OpRecord, PCs, Working, Docs
  <2>4. /\ SameClaim(ops[i], x) /\ x.job = ops[i].job /\ x.token = ops[i].token /\ x.server = ops[i].server
        /\ x.pc = "writing" /\ x.session = page.session /\ x.target = p
    BY <2>2 DEF OpRecord, SameClaim
  <2> HIDE DEF x
  <2>5. /\ Good(page, ops', store, jobs, sessions, made) /\ OnlyOp(ops, ops', i) /\ ops'[i] = x
        /\ \A k \in DOMAIN ops' : ops'[k].pc # "new"
    BY <1>1, <1>3, <2>1, <2>3, <2>4, SaveStep DEF Saves
  <2>6. Early(page, ops', store, Unsaved)
    <3>1. MayWait(page, ops[i], store, Unsaved) => MayWait(page, x, store, Unsaved)
      BY <1>1, <2>4 DEF MayWait, Past, Loading, Begun
    <3>2. Early(page, ops, store, Unsaved)
      BY Known
    <3> QED BY <2>5, <3>1, <3>2, StepEarly DEF SamePage
  <2>7. Backend'
    <3>1. jobs' \in Seq(JobRecord) /\ \A j \in DOMAIN jobs' : jobs'[j].session <= sessions
      BY <1>1, Known DEF Backend
    <3> QED BY <1>1, <2>5, <3>1, BackendJobs
  <2> QED BY <1>1, <1>3, <2>5, <2>6, <2>7, SameUnsaved, Assemble
<1> QED BY <1>2, <1>3 DEF PathChosen

LEMMA GrantedKeeps ==
  ASSUME DocumentInv, NEW i \in DOMAIN ops, Granted(i)
  PROVE DocumentInv'
<1>1. /\ ops[i].pc = "granting" /\ ops[i].pc \in Saves /\ UNCHANGED <<store, jobs, files, sessions, made, early, settled>>
      /\ left' \in Budget
  BY Known DEF Granted, Saves
<1>2. CASE page.session = 0
  <2>1. Becomes(Finish(page, ops, i, FALSE))
    BY <1>2 DEF Granted
  <2> QED BY <1>1, <2>1, GivenUp
<1>3. CASE page.session # 0
  <2> DEFINE x == [ops[i] EXCEPT !.session = page.session, !.pc = "writing"]
  <2>1. ops' = [ops EXCEPT ![i] = x] /\ page' = page
    BY <1>3 DEF Granted
  <2>2. ops[i] \in OpRecord /\ page.session \in Nat
    BY <1>1, SaveKnown, Known DEF PageRecord
  <2>3. x \in OpRecord
    BY <2>2 DEF OpRecord, PCs, Working, Docs
  <2>4. /\ SameClaim(ops[i], x) /\ x.job = ops[i].job /\ x.token = ops[i].token /\ x.server = ops[i].server
        /\ x.pc = "writing" /\ x.session = page.session /\ x.target = ops[i].target
    BY <2>2 DEF OpRecord, SameClaim
  <2> HIDE DEF x
  <2>5. /\ Good(page, ops', store, jobs, sessions, made) /\ OnlyOp(ops, ops', i) /\ ops'[i] = x
        /\ \A k \in DOMAIN ops' : ops'[k].pc # "new"
    <3>1. x.target \in Projects \cup {None}
      BY <1>1, <2>4, SaveKnown
    <3> QED BY <1>1, <1>3, <2>1, <2>3, <2>4, <3>1, SaveStep DEF Saves
  <2>6. Early(page, ops', store, Unsaved)
    <3>1. MayWait(page, ops[i], store, Unsaved) => MayWait(page, x, store, Unsaved)
      BY <1>1, <2>4 DEF MayWait, Past, Loading, Begun
    <3>2. Early(page, ops, store, Unsaved)
      BY Known
    <3> QED BY <2>5, <3>1, <3>2, StepEarly DEF SamePage
  <2>7. Backend'
    <3>1. jobs' \in Seq(JobRecord) /\ \A j \in DOMAIN jobs' : jobs'[j].session <= sessions
      BY <1>1, Known DEF Backend
    <3> QED BY <1>1, <2>5, <3>1, BackendJobs
  <2> QED BY <1>1, <2>1, <2>5, <2>6, <2>7, SameUnsaved, Assemble
<1> QED BY <1>2, <1>3


LEMMA FlushedKeeps ==
  ASSUME DocumentInv, NEW i \in DOMAIN ops, Flushed(i)
  PROVE DocumentInv'
<1>1. /\ ops[i].pc = "flushing" /\ ops[i].pc \in Saves /\ UNCHANGED <<jobs, files, sessions, made, early, settled>>
      /\ left' \in Budget
  BY Known DEF Flushed, Saves
<1>2. CASE ~(page.session # 0 /\ page.session = store.session)
  <2>1. Becomes(Finish(page, ops, i, FALSE)) /\ store' = store
    BY <1>2 DEF Flushed
  <2> QED BY <1>1, <2>1, GivenUp
<1>3. CASE page.session # 0 /\ page.session = store.session
  <2> DEFINE pc == IF ops[i].saveAs \/ page.path = None THEN "path" ELSE "granting"
  <2> DEFINE x == [ops[i] EXCEPT !.target = page.path, !.pc = pc]
  <2>1. ops' = [ops EXCEPT ![i] = x] /\ page' = page /\ store' = [store EXCEPT !.edits = page.edits]
    BY <1>3 DEF Flushed
  <2>2. /\ ops[i] \in OpRecord /\ page.path \in Projects \cup {None} /\ page.path \in Docs \cup {None}
        /\ pc \in {"path", "granting"} /\ page.edits \in SUBSET Nat /\ page.edits \subseteq 1..made
        /\ store \in StoreRecord
    BY <1>1, SaveKnown, Known DEF PageRecord, Docs, PageFits
  <2> HIDE DEF pc
  <2>3. x \in OpRecord
    BY <2>2 DEF OpRecord, PCs, Working, Waiting
  <2>4. /\ SameClaim(ops[i], x) /\ x.job = ops[i].job /\ x.token = ops[i].token /\ x.server = ops[i].server
        /\ x.pc = pc /\ x.session = ops[i].session /\ x.target = page.path
    BY <2>2 DEF OpRecord, SameClaim
  <2> HIDE DEF x
  <2>5. /\ store' \in StoreRecord /\ store'.session = store.session /\ store'.doc = store.doc
        /\ store'.edits = page.edits /\ store'.holder = store.holder
    BY <2>1, <2>2 DEF StoreRecord
  <2>6. /\ Good(page, ops', store', jobs, sessions, made) /\ OnlyOp(ops, ops', i) /\ ops'[i] = x
        /\ \A k \in DOMAIN ops' : ops'[k].pc # "new"
    BY <1>1, <2>1, <2>2, <2>3, <2>4, <2>5, SaveStep DEF Saves
  <2>7. Early(page, ops', store', Unsaved)
    <3> SUFFICES ASSUME Unsaved # {} PROVE Early(page, ops', store', Unsaved)
      BY DEF Early
    <3>1. /\ Unsaved \subseteq page.edits /\ page.dirty /\ page.session # 0 /\ ~page.grade /\ page.gradeOpen = 0
          /\ \A k \in DOMAIN ops : MayWait(page, ops[k], store, Unsaved)
      BY Known DEF Early
    <3>2. \A k \in DOMAIN ops : MayWait(page, ops[k], store', Unsaved)
      BY <2>5, <3>1 DEF MayWait
    <3>3. MayWait(page, x, store', Unsaved)
      BY <2>2, <2>4, <2>5, <3>1 DEF MayWait, Past, Loading, Begun
    <3> QED BY <2>6, <3>1, <3>2, <3>3 DEF Early, OnlyOp
  <2>8. Backend'
    <3>1. Len(ops') = Len(ops)
      BY <2>6 DEF OnlyOp
    <3> QED BY <1>1, <2>2, <2>5, <3>1, Known DEF Backend, StoreFits
  <2> QED BY <1>1, <2>1, <2>6, <2>7, <2>8, SameUnsaved, Assemble
<1> QED BY <1>2, <1>3

LEMMA SaveAnsweredKeeps ==
  ASSUME DocumentInv, NEW i \in DOMAIN ops, SaveAnswered(i)
  PROVE DocumentInv'
<1>1. /\ ops[i].pc \in {"written", "unsaved"} /\ ops[i].pc \in Saves
      /\ UNCHANGED <<store, jobs, files, sessions, made, early, settled>> /\ left' \in Budget
  BY Known DEF SaveAnswered, Saves
<1>2. CASE ops[i].pc = "unsaved"
  <2>1. Becomes(Finish(page, ops, i, FALSE))
    BY <1>2 DEF SaveAnswered
  <2> QED BY <1>1, <2>1, GivenUp
<1>3. CASE ops[i].pc = "written"
  <2> DEFINE target == ops[i].target
  <2> DEFINE q == [page EXCEPT !.path = target, !.dirty = FALSE]
  <2> DEFINE r == Finish(q, ops, i, TRUE)
  <2>1. page' = r.page /\ ops' = r.ops
    BY <1>3 DEF SaveAnswered, Becomes
  <2>2. target \in Projects \cup {None} /\ page \in PageRecord
    BY <1>1, SaveKnown, Known
  <2> HIDE DEF target
  <2>3. /\ q \in PageRecord /\ SameGens(page, q) /\ q.session = page.session /\ q.edits = page.edits
        /\ q.activeImportJobId = page.activeImportJobId /\ q.gradeOpen = page.gradeOpen
    BY <2>2 DEF PageRecord, SameGens
  <2> HIDE DEF q
  <2>4. PageFits(q, sessions, made, Len(jobs))
    BY <2>3, Known DEF PageFits, SameGens
  <2>5. Good(q, ops, store, jobs, sessions, made)
    <3>1. /\ Good(page, ops, store, jobs, sessions, made) /\ sessions \in Nat /\ made \in Nat
          /\ jobs \in Seq(JobRecord) /\ sessions <= sessions /\ made <= made
      BY Known
    <3> QED BY <2>3, <2>4, <3>1, PageGood
  <2>6. Unsaved = {}
    BY <1>3, PastIsSettled DEF Past
  <2>7. /\ Early(q, ops, store, {}) /\ \A k \in DOMAIN ops : ops[k].pc # "new"
        /\ sessions \in Nat /\ made \in Nat /\ jobs \in Seq(JobRecord)
    BY NothingEarly, Known
  <2>8. /\ Good(r.page, r.ops, store, jobs, sessions, made) /\ SameEnds(ops, r.ops)
        /\ \A k \in DOMAIN ops : r.ops[k].pc # "new"
    BY <1>1, <2>5, <2>7, FinishGood
  <2> HIDE DEF r
  <2>9. Backend'
    <3>1. Len(ops) \in Nat /\ Len(ops') = Len(ops)
      BY <2>1, <2>8, Known DEF SameEnds
    <3> QED BY <1>1, <3>1, Known, BackendKept
  <2>10. Early(page', ops', store', Unsaved')
    BY <1>1, <2>6, SameUnsaved, NothingEarly
  <2> QED BY <1>1, <2>1, <2>8, <2>9, <2>10, Assemble DEF SameEnds
<1> QED BY <1>1, <1>2, <1>3

LEMMA SaveProjectKeeps ==
  ASSUME DocumentInv, NEW i \in DOMAIN ops, save_project(i)
  PROVE DocumentInv'
<1>1. /\ ops[i].pc = "writing" /\ ops[i].pc \in Saves /\ UNCHANGED <<page, store, jobs, sessions, made, early>>
      /\ left' \in Budget
  BY Spending, Known DEF save_project, Saves, Rests
<1>2. ASSUME NEW pc \in {"written", "unsaved"}, ops' = [ops EXCEPT ![i].pc = pc]
      PROVE /\ Good(page, ops', store, jobs, sessions, made) /\ OnlyOp(ops, ops', i)
            /\ Moves(ops[i], ops'[i], pc) /\ \A k \in DOMAIN ops' : ops'[k].pc # "new"
  <2> DEFINE x == [ops[i] EXCEPT !.pc = pc]
  <2>1. ops' = [ops EXCEPT ![i] = x]
    BY <1>2
  <2>2. ops[i] \in OpRecord /\ ops[i].target \in Projects \cup {None} /\ ops[i].session # 0
    BY <1>1, SaveKnown, Known DEF Shape
  <2>3. x \in OpRecord
    BY <2>2 DEF OpRecord, PCs, Working
  <2>4. Moves(ops[i], x, pc)
    BY <2>2 DEF OpRecord, Moves, SameClaim
  <2> HIDE DEF x
  <2>5. /\ Good(page, ops', store, jobs, sessions, made) /\ OnlyOp(ops, ops', i) /\ ops'[i] = x
        /\ \A k \in DOMAIN ops' : ops'[k].pc # "new"
    BY <1>1, <2>1, <2>2, <2>3, <2>4, SaveStep DEF Saves, Moves
  <2> QED BY <2>4, <2>5
<1>3. CASE /\ store.session = ops[i].session
           /\ files' = [files EXCEPT ![ops[i].target] = [doc |-> store.doc, edits |-> store.edits]]
           /\ settled' = settled \cup store.edits /\ ops' = [ops EXCEPT ![i].pc = "written"]
  <2>1. /\ Good(page, ops', store, jobs, sessions, made) /\ OnlyOp(ops, ops', i)
        /\ \A k \in DOMAIN ops' : ops'[k].pc # "new"
    BY <1>2, <1>3
  <2>2. Unsaved' = {}
    <3>1. Unsaved # {} => MayWait(page, ops[i], store, Unsaved)
      BY Known DEF Early
    <3>2. Unsaved \subseteq store.edits
      BY <1>1, <1>3, <3>1 DEF MayWait
    <3> QED BY <1>1, <1>3, <3>2 DEF Unsaved
  <2>3. Backend'
    <3> DEFINE content == [doc |-> store.doc, edits |-> store.edits]
    <3>1. ops[i].session # 0
      BY <1>1, Known DEF Shape
    <3>2. /\ store \in StoreRecord /\ StoreFits(store, sessions, made, Len(ops))
          /\ files \in [Projects -> Content0] /\ \A p \in Projects : files[p].edits \subseteq 1..made
          /\ settled \subseteq 1..made
      BY Known DEF Backend
    <3>3. content \in Content0 /\ content.edits \subseteq 1..made
      BY <1>3, <3>1, <3>2 DEF StoreFits, StoreRecord, Content0
    <3> HIDE DEF content
    <3>4. files' = [files EXCEPT ![ops[i].target] = content]
      BY <1>3 DEF content
    <3>5. files' \in [Projects -> Content0] /\ \A p \in Projects : files'[p].edits \subseteq 1..made
      BY <3>2, <3>3, <3>4
    <3>6. settled' \subseteq 1..made
      BY <1>3, <3>2 DEF StoreFits
    <3>7. Len(ops') = Len(ops)
      BY <2>1 DEF OnlyOp
    <3> QED BY <1>1, <3>5, <3>6, <3>7, Known DEF Backend
  <2> QED BY <1>1, <2>1, <2>2, <2>3, NothingEarly, Assemble
<1>4. CASE ops' = [ops EXCEPT ![i].pc = "unsaved"] /\ UNCHANGED <<files, settled>>
  <2>1. /\ Good(page, ops', store, jobs, sessions, made) /\ OnlyOp(ops, ops', i)
        /\ Moves(ops[i], ops'[i], "unsaved") /\ \A k \in DOMAIN ops' : ops'[k].pc # "new"
    BY <1>2, <1>4
  <2>2. Early(page, ops', store, Unsaved)
    <3>1. MayWait(page, ops'[i], store, Unsaved)
      BY <2>1 DEF MayWait, Past, Loading, Begun, Moves
    <3>2. Early(page, ops, store, Unsaved)
      BY Known
    <3> QED BY <2>1, <3>1, <3>2, StepEarly DEF SamePage
  <2>3. Backend'
    <3>1. jobs' \in Seq(JobRecord) /\ \A j \in DOMAIN jobs' : jobs'[j].session <= sessions
      BY <1>1, Known DEF Backend
    <3> QED BY <1>1, <1>4, <2>1, <3>1, BackendJobs
  <2> QED BY <1>1, <1>4, <2>1, <2>2, <2>3, SameUnsaved, Assemble
<1> QED BY <1>3, <1>4 DEF save_project, Goto


-----------------------------------------------------------------------------
(* The questions.                                                             *)

LEMMA AskedKnown ==
  ASSUME DocumentInv, NEW i \in DOMAIN ops, ops[i].pc \in Asked
  PROVE /\ ops[i] \in OpRecord /\ ops[i].kind \in Opens /\ ops[i].gen = 0 /\ ops[i].pgen = 0 /\ ops[i].job = 0
        /\ ops[i].server = None /\ ~Waits(ops[i]) /\ Shape(ops[i]) /\ Serving(ops[i])
        /\ OpFits(ops[i], sessions, made, Len(jobs))
        /\ ops[i].pc # "saving" => \A k \in DOMAIN ops : k # i /\ Waits(ops[k]) => ops[k].parent # i
<1>1. ops[i] \in OpRecord /\ Shape(ops[i]) /\ Serving(ops[i]) /\ OpFits(ops[i], sessions, made, Len(jobs))
  BY Known
<1>2. /\ ops[i].gen = 0 /\ ops[i].pgen = 0 /\ ops[i].job = 0 /\ ops[i].server = None /\ ops[i].kind \in Opens
  BY <1>1, AskedIsFresh
<1>3. Parents(ops) /\ ops \in Seq(OpRecord)
  BY Known DEF Claims
<1>4. ops[i].pc # "saving" => \A k \in DOMAIN ops : k # i /\ Waits(ops[k]) => ops[k].parent # i
  BY <1>3, NoParent
<1> QED BY <1>1, <1>2, <1>4 DEF Waits, Opens

\* A transition is asked about something else, or waits for a save.
LEMMA AskedStep ==
  ASSUME DocumentInv, NEW i \in DOMAIN ops, ops[i].pc \in Asked, ops[i].pc # "saving",
         NEW out, OnlyOp(ops, out, i), SameClaim(ops[i], out[i]), out[i].job = ops[i].job,
         out[i].token = ops[i].token, out[i].server = ops[i].server, out[i].target = ops[i].target,
         out[i].session \in {ops[i].session, 0}, out[i].pc \in {ops[i].pc, "saving"}
  PROVE /\ Good(page, out, store, jobs, sessions, made) /\ out[i].pc \in Asked
        /\ \A k \in DOMAIN out : out[k].pc # "new"
        /\ \A k \in DOMAIN out : Waits(out[k]) => out[k].parent # i
<1> DEFINE x == out[i]
<1>1. /\ ops[i].kind \in Opens /\ ops[i].gen = 0 /\ ops[i].pgen = 0 /\ ops[i].job = 0
      /\ ops[i].server = None /\ Shape(ops[i]) /\ Serving(ops[i])
      /\ OpFits(ops[i], sessions, made, Len(jobs)) /\ ops[i] \in OpRecord
      /\ \A k \in DOMAIN ops : k # i /\ Waits(ops[k]) => ops[k].parent # i
  BY AskedKnown
<1>2. /\ x.kind \in Opens /\ x.kind = ops[i].kind /\ x.gen = 0 /\ x.pgen = 0 /\ x.job = 0 /\ x.server = None
      /\ x.pc \in Asked /\ ~Waits(x)
  BY <1>1 DEF SameClaim, Asked, Waits, Opens
<1>3. /\ OnlyOp(ops, out, i) /\ out[i] = x /\ x.target = ops[i].target /\ x.token = ops[i].token
      /\ x.session \in {ops[i].session, 0}
  OBVIOUS
<1> HIDE DEF x
<1>4. Shape(x)
  BY <1>1, <1>2, <1>3 DEF Shape, Asked, Loading, Begun, Saves, HasJob
<1>5. Serving(x)
  BY <1>1, <1>2, <1>3 DEF Serving, Opens, None, Asked
<1>6. OpFits(x, sessions, made, Len(jobs))
  <2>1. 0 <= sessions
    BY Known
  <2> QED BY <1>1, <1>2, <1>3, <2>1 DEF OpFits, None
<1>7. AnswersStep(page, ops[i], x)
  BY <1>1, <1>2 DEF AnswersStep, InBackend, None
<1>8. /\ page \in PageRecord /\ PageFits(page, sessions, made, Len(jobs)) /\ SameGens(page, page)
      /\ Good(page, ops, store, jobs, sessions, made)
  BY Known DEF SameGens
<1>9. Good(page, out, store, jobs, sessions, made)
  BY <1>1, <1>2, <1>3, <1>4, <1>5, <1>6, <1>7, <1>8, StepGood
<1>10. \A k \in DOMAIN out : Waits(out[k]) => out[k].parent # i
  BY <1>1, <1>2, <1>3 DEF OnlyOp
<1>11. \A k \in DOMAIN out : out[k].pc # "new"
  BY <1>2, <1>3, Known DEF OnlyOp
<1> QED BY <1>2, <1>3, <1>9, <1>10, <1>11

\* The user gives the transition up.
LEMMA DroppedQuestion ==
  ASSUME DocumentInv, NEW i \in DOMAIN ops, ops[i].pc \in Asked, ops[i].pc # "saving",
         ops' = [ops EXCEPT ![i].pc = "done"],
         UNCHANGED <<page, store, jobs, files, sessions, made, early, settled>>, left' \in Budget
  PROVE DocumentInv'
<1>1. Good(page, ops', store, jobs, sessions, made) /\ OnlyOp(ops, ops', i) /\ Moves(ops[i], ops'[i], "done")
  BY Known, DoneGood
<1>2. Early(page, ops', store, Unsaved)
  <2> SUFFICES ASSUME Unsaved # {} PROVE Early(page, ops', store, Unsaved)
    BY DEF Early
  <2>1. MayWait(page, ops'[i], store, Unsaved)
    BY <1>1 DEF MayWait, Past, Loading, Begun, Moves
  <2>2. /\ Unsaved \subseteq page.edits /\ page.dirty /\ page.session # 0 /\ ~page.grade /\ page.gradeOpen = 0
        /\ \A k \in DOMAIN ops : MayWait(page, ops[k], store, Unsaved)
    BY Known DEF Early
  <2>3. \A k \in DOMAIN ops' : MayWait(page, ops'[k], store, Unsaved)
    BY <1>1, <2>1, <2>2 DEF OnlyOp
  <2> QED BY <2>2, <2>3 DEF Early
<1>3. Backend'
  <2>1. jobs' \in Seq(JobRecord) /\ \A j \in DOMAIN jobs' : jobs'[j].session <= sessions
    BY Known DEF Backend
  <2> QED BY <1>1, <2>1, BackendJobs
<1>4. \A k \in DOMAIN ops' : ops'[k].pc # "new"
  BY <1>1, Known DEF OnlyOp, Moves
<1> QED BY <1>1, <1>2, <1>3, <1>4, SameUnsaved, Assemble

\* A transition goes on, in a state where nothing is unsaved any more.
LEMMA GoesOn ==
  ASSUME DocumentInv, NEW i \in DOMAIN ops, NEW mid, OnlyOp(ops, mid, i), NEW q,
         Good(q, ops', store, jobs, sessions, made), OnlyOp(mid, ops', i), ops'[i].pc # "new",
         page' = q, Unsaved' = {}, settled' \subseteq 1..made,
         UNCHANGED <<store, jobs, files, sessions, made, early>>, left' \in Budget
  PROVE DocumentInv'
<1>1. Backend'
  <2>1. Len(ops) \in Nat /\ Len(ops') = Len(ops)
    BY Known DEF OnlyOp
  <2> QED BY <2>1, Known, BackendKept
<1>2. \A k \in DOMAIN ops' : ops'[k].pc # "new"
  BY Known DEF OnlyOp
<1>3. Early(page', ops', store', Unsaved')
  BY NothingEarly
<1> QED BY <1>1, <1>2, <1>3, Assemble

LEMMA LeaveKeeps ==
  ASSUME DocumentInv, NEW i \in DOMAIN ops, leave(i)
  PROVE DocumentInv'
<1>1. /\ ops[i].pc = "leaving" /\ ops[i].pc \in Asked /\ UNCHANGED <<store, jobs, files, sessions, made, early, settled>>
      /\ left' \in Budget
  BY Known DEF leave, Asked
<1>2. CASE Done(i) /\ UNCHANGED page
  BY <1>1, <1>2, DroppedQuestion DEF Done, Goto
<1>3. CASE Becomes(Continue(page, [ops EXCEPT ![i].session = 0], i))
  <2> DEFINE mid == [ops EXCEPT ![i].session = 0]
  <2> DEFINE x == [ops[i] EXCEPT !.session = 0]
  <2> DEFINE r == Continue(page, mid, i)
  <2>1. page' = r.page /\ ops' = r.ops
    BY <1>3 DEF Becomes
  <2>2. ops[i] \in OpRecord
    BY Known
  <2>3. x \in OpRecord
    BY <2>2 DEF OpRecord
  <2>4. /\ SameClaim(ops[i], x) /\ x.job = ops[i].job /\ x.token = ops[i].token /\ x.server = ops[i].server
        /\ x.target = ops[i].target /\ x.session = 0 /\ x.pc = ops[i].pc
    BY <2>2 DEF OpRecord, SameClaim
  <2>5. mid = [ops EXCEPT ![i] = x]
    OBVIOUS
  <2> HIDE DEF x, mid
  <2>6. /\ Good(page, mid, store, jobs, sessions, made) /\ OnlyOp(ops, mid, i) /\ mid[i].pc \in Asked
        /\ \A k \in DOMAIN mid : Waits(mid[k]) => mid[k].parent # i
    <3>1. OnlyOp(ops, mid, i) /\ mid[i] = x
      BY <2>3, <2>5, Known DEF OnlyOp
    <3>2. /\ Good(page, mid, store, jobs, sessions, made) /\ mid[i].pc \in Asked
          /\ \A k \in DOMAIN mid : Waits(mid[k]) => mid[k].parent # i
      BY <1>1, <2>4, <3>1, AskedStep
    <3> QED BY <3>1, <3>2
  <2>7. i \in DOMAIN mid /\ sessions \in Nat /\ made \in Nat /\ jobs \in Seq(JobRecord)
    BY <2>6, Known DEF OnlyOp
  <2>8. DOMAIN mid = DOMAIN ops
    BY <2>6 DEF OnlyOp
  <2>9. Good(r.page, r.ops, store, jobs, sessions, made) /\ OnlyOp(mid, r.ops, i) /\ r.ops[i].pc # "new"
    BY <2>6, <2>7, ContinueGood
  <2> HIDE DEF r
  <2>10. Unsaved' = {} /\ settled' \subseteq 1..made
    BY <1>1, PastIsSettled, SameUnsaved, Known DEF Past
  <2> QED BY <1>1, <2>1, <2>6, <2>9, <2>10, GoesOn
<1> QED BY <1>2, <1>3 DEF leave


\* The project chosen is claimed.
LEMMA ClaimedGood ==
  ASSUME DocumentInv, NEW i \in DOMAIN ops, ops[i].pc = "choosing"
  PROVE LET r == ClaimProject(page, ops, i) IN
        /\ Good(r.page, r.ops, store, jobs, sessions, made) /\ OnlyOp(ops, r.ops, i) /\ r.ops[i].pc # "new"
<1> DEFINE r == ClaimProject(page, ops, i)
<1>1. /\ page \in PageRecord /\ ops \in Seq(OpRecord) /\ ops[i] \in OpRecord /\ Len(jobs) \in Nat
      /\ sessions \in Nat /\ made \in Nat /\ jobs \in Seq(JobRecord)
      /\ PageFits(page, sessions, made, Len(jobs)) /\ OpFits(ops[i], sessions, made, Len(jobs))
      /\ Good(page, ops, store, jobs, sessions, made)
  BY Known
<1>2. /\ ops[i].pc \in Asked /\ ops[i].kind = "project" /\ ops[i].server = None
      /\ \A k \in DOMAIN ops : k # i /\ Waits(ops[k]) => ops[k].parent # i
  <2>1. ops[i].pc \in Asked /\ ops[i].pc # "saving"
    BY DEF Asked
  <2> QED BY <2>1, AskedKnown DEF Shape
<1>3. /\ r.page \in PageRecord /\ OnlyOp(ops, r.ops, i) /\ SameOp(ops[i], r.ops[i])
      /\ ClaimsProject(page, r.page, ops[i], r.ops[i])
  BY <1>1, <1>2, ClaimProjectOutcome
<1> HIDE DEF r
<1>4. Outcome(page, r.page, ops[i], r.ops[i]) /\ r.ops \in Seq(OpRecord) /\ r.ops[i] \in OpRecord
  BY <1>3 DEF OnlyOp, Outcome
<1>5. PageFits(r.page, sessions, made, Len(jobs)) /\ \A k \in DOMAIN r.ops : OpFits(r.ops[k], sessions, made, Len(jobs))
  <2>1. PageFits(r.page, sessions, made, Len(jobs)) /\ OpFits(r.ops[i], sessions, made, Len(jobs))
    BY <1>1, <1>2, <1>3, <1>4, OutcomeFits
  <2> QED BY <1>1, <1>3, <2>1 DEF Good, OnlyOp
<1>6. Claims(r.page, r.ops)
  BY <1>1, <1>2, <1>3, <1>4, OutcomeClaims DEF Good
<1>7. /\ StillHolds(page, ops, r.page, r.ops) /\ StillAnswers(page, ops, r.page, r.ops)
      /\ Running(r.page, r.ops, jobs)
  BY <1>1, <1>2, <1>3, <1>4, OutcomeLive DEF Good, Claims
<1>8. r.page.session \in {page.session, 0}
  BY <1>3 DEF ClaimsProject, SamePage
<1>9. Shown(r.page, r.ops, store, jobs) /\ Answers(r.page, r.ops, store, jobs)
  BY <1>1, <1>7, <1>8, HasStill, ShownKept, AnswersKept DEF Good
<1> QED BY <1>3, <1>4, <1>5, <1>6, <1>7, <1>9 DEF Good, SameOp, r

LEMMA ChosenKeeps ==
  ASSUME DocumentInv, NEW i \in DOMAIN ops, Chosen(i)
  PROVE DocumentInv'
<1>1. /\ ops[i].pc = "choosing" /\ ops[i].pc \in Asked /\ UNCHANGED <<store, jobs, files, sessions, made, early, settled>>
      /\ left' \in Budget /\ ops[i].pc # "saving"
  BY Known DEF Chosen, Asked
<1>2. CASE Done(i) /\ UNCHANGED page
  BY <1>1, <1>2, DroppedQuestion DEF Done, Goto
<1>3. CASE Becomes(ClaimProject(page, ops, i)) /\ documentTransitionToken(page) = ops[i].token
  <2> DEFINE r == ClaimProject(page, ops, i)
  <2>1. page' = r.page /\ ops' = r.ops
    BY <1>3 DEF Becomes
  <2>2. Good(r.page, r.ops, store, jobs, sessions, made) /\ OnlyOp(ops, r.ops, i) /\ r.ops[i].pc # "new"
    BY <1>1, ClaimedGood
  <2> HIDE DEF r
  <2>3. ops[i].token[2] = page.edits
    <3>1. ops[i].token = <<page.session, page.edits, page.dirty>>
      BY <1>3 DEF documentTransitionToken
    <3> QED BY <3>1
  <2>4. Unsaved = {}
    <3>1. Unsaved # {} => Unsaved \subseteq page.edits /\ MayWait(page, ops[i], store, Unsaved)
      BY Known DEF Early
    <3> QED BY <1>1, <2>3, <3>1 DEF MayWait
  <2>5. Unsaved' = {} /\ settled' \subseteq 1..made
    BY <1>1, <2>4, SameUnsaved, Known
  <2>6. OnlyOp(ops, ops, i)
    BY Known DEF OnlyOp
  <2> QED BY <1>1, <2>1, <2>2, <2>5, <2>6, GoesOn
<1>4. CASE Becomes(confirmUnsavedTransition(page, [ops EXCEPT ![i].again = TRUE], i))
  <2> DEFINE mid == [ops EXCEPT ![i].again = TRUE]
  <2> DEFINE x == [ops[i] EXCEPT !.again = TRUE]
  <2> DEFINE r == confirmUnsavedTransition(page, mid, i)
  <2>1. page' = r.page /\ ops' = r.ops
    BY <1>4 DEF Becomes
  <2>2. ops[i] \in OpRecord
    BY Known
  <2>3. x \in OpRecord
    BY <2>2 DEF OpRecord
  <2>4. /\ SameClaim(ops[i], x) /\ x.job = ops[i].job /\ x.token = ops[i].token /\ x.server = ops[i].server
        /\ x.target = ops[i].target /\ x.session = ops[i].session /\ x.pc = ops[i].pc
    BY <2>2 DEF OpRecord, SameClaim
  <2>5. mid = [ops EXCEPT ![i] = x]
    OBVIOUS
  <2> HIDE DEF x, mid
  <2>6. OnlyOp(ops, mid, i) /\ mid[i] = x
    BY <2>3, <2>5, Known DEF OnlyOp
  <2>7. /\ Good(page, mid, store, jobs, sessions, made) /\ mid[i].pc \in Asked
        /\ \A k \in DOMAIN mid : mid[k].pc # "new"
        /\ \A k \in DOMAIN mid : Waits(mid[k]) => mid[k].parent # i
    BY <1>1, <2>4, <2>6, AskedStep
  <2>8. i \in DOMAIN mid /\ DOMAIN mid = DOMAIN ops /\ sessions \in Nat /\ made \in Nat /\ jobs \in Seq(JobRecord)
    BY <2>6, Known DEF OnlyOp
  <2>9. Early(page, mid, store, Unsaved)
    <3>1. MayWait(page, ops[i], store, Unsaved) => MayWait(page, mid[i], store, Unsaved)
      BY <1>1, <2>4, <2>6 DEF MayWait
    <3>2. Early(page, ops, store, Unsaved)
      BY Known
    <3> QED BY <2>6, <3>1, <3>2, StepEarly DEF SamePage
  <2>10. /\ Good(r.page, r.ops, store, jobs, sessions, made) /\ OnlyOp(mid, r.ops, i) /\ r.ops[i].pc # "new"
         /\ Early(r.page, r.ops, store, Unsaved)
    BY <2>7, <2>8, <2>9, ConfirmGood
  <2> HIDE DEF r
  <2>11. /\ Good(page', ops', store, jobs, sessions, made) /\ OnlyOp(mid, ops', i) /\ ops'[i].pc # "new"
         /\ Early(page', ops', store, Unsaved)
    BY <2>1, <2>10
  <2>12. Backend'
    <3>1. Len(ops) \in Nat /\ Len(ops') = Len(ops)
      BY <2>6, <2>11, Known DEF OnlyOp
    <3> QED BY <1>1, <3>1, Known, BackendKept
  <2>13. \A k \in DOMAIN ops' : ops'[k].pc # "new"
    BY <2>7, <2>11 DEF OnlyOp
  <2> QED BY <1>1, <2>11, <2>12, <2>13, SameUnsaved, Assemble
<1> QED
  <2>1. \/ Becomes(IF documentTransitionToken(page) = ops[i].token THEN ClaimProject(page, ops, i)
                   ELSE confirmUnsavedTransition(page, [ops EXCEPT ![i].again = TRUE], i))
        \/ Done(i) /\ UNCHANGED page
    BY DEF Chosen
  <2>2. CASE documentTransitionToken(page) = ops[i].token
    BY <1>2, <1>3, <2>1, <2>2
  <2>3. CASE documentTransitionToken(page) # ops[i].token
    BY <1>2, <1>4, <2>1, <2>3
  <2> QED BY <2>2, <2>3

LEMMA AnswerKeeps ==
  ASSUME DocumentInv, NEW i \in DOMAIN ops, Answer(i)
  PROVE DocumentInv'
<1>1. /\ ops[i].pc = "confirm" /\ ops[i].pc \in Asked /\ UNCHANGED <<store, jobs, files, sessions, made, early>>
      /\ left' \in Budget /\ ops[i].pc # "saving"
  BY Known DEF Answer, Asked
<1>2. /\ sessions \in Nat /\ made \in Nat /\ jobs \in Seq(JobRecord) /\ ops \in Seq(OpRecord)
      /\ Good(page, ops, store, jobs, sessions, made) /\ Early(page, ops, store, Unsaved)
  BY Known
<1>3. CASE Done(i) /\ UNCHANGED <<page, settled>>
  BY <1>1, <1>3, DroppedQuestion DEF Done, Goto
<1>4. CASE /\ Becomes(Continue(page, ops, i))
           /\ settled' = IF page.session = ops[i].session THEN settled \cup page.edits ELSE settled
  <2> DEFINE r == Continue(page, ops, i)
  <2>1. page' = r.page /\ ops' = r.ops
    BY <1>4 DEF Becomes
  <2>2. \A k \in DOMAIN ops : k # i /\ Waits(ops[k]) => ops[k].parent # i
    BY <1>1, AskedKnown
  <2>3. Good(r.page, r.ops, store, jobs, sessions, made) /\ OnlyOp(ops, r.ops, i) /\ r.ops[i].pc # "new"
    BY <1>1, <1>2, <2>2, ContinueGood
  <2> HIDE DEF r
  <2>4. Unsaved' = {}
    <3>1. Unsaved # {} => Unsaved \subseteq page.edits /\ MayWait(page, ops[i], store, Unsaved)
      BY <1>2 DEF Early
    <3>2. Unsaved # {} => page.session = ops[i].session
      BY <1>1, <3>1 DEF MayWait
    <3> QED BY <1>1, <1>4, <3>1, <3>2 DEF Unsaved
  <2>5. settled' \subseteq 1..made
    BY <1>4, Known DEF PageFits
  <2>6. OnlyOp(ops, ops, i)
    BY <1>2 DEF OnlyOp
  <2> QED BY <1>1, <2>1, <2>3, <2>4, <2>5, <2>6, GoesOn
<1>5. CASE /\ ops' = Append([ops EXCEPT ![i].pc = "saving"],
                            [Operation("save", page.path, "flushing") EXCEPT !.parent = i, !.shown = page.doc])
           /\ UNCHANGED <<page, settled>>
  <2> DEFINE mid == [ops EXCEPT ![i].pc = "saving"]
  <2> DEFINE o == [Operation("save", page.path, "flushing") EXCEPT !.parent = i, !.shown = page.doc]
  <2>1. ops' = Append(mid, o)
    BY <1>5
  <2>2. SaveOf(i, o)
    BY DEF SaveOf
  <2> HIDE DEF o
  <2>3. i \in Nat /\ i # 0 /\ page \in PageRecord
    BY <1>2, Known
  <2>4. /\ o \in OpRecord /\ o.pc = "flushing" /\ o.kind = "save" /\ o.parent = i /\ Unclaimed(o)
        /\ Shape(o) /\ Serving(o) /\ o.session = 0 /\ o.token = <<>>
    BY <2>2, <2>3, SaveOperation
  <2>5. OnlyOp(ops, mid, i) /\ Moves(ops[i], mid[i], "saving")
    BY <1>2, Moved DEF PCs, Working
  <2> HIDE DEF mid
  <2>6. /\ SameClaim(ops[i], mid[i]) /\ mid[i].job = ops[i].job
        /\ mid[i].token = ops[i].token /\ mid[i].server = ops[i].server /\ mid[i].target = ops[i].target
        /\ mid[i].session = ops[i].session /\ mid[i].pc = "saving" /\ DOMAIN mid = DOMAIN ops
        /\ Len(mid) = Len(ops)
    BY <2>5 DEF Moves, OnlyOp
  <2>7. /\ Good(page, mid, store, jobs, sessions, made)
        /\ \A k \in DOMAIN mid : mid[k].pc # "new"
        /\ \A k \in DOMAIN mid : Waits(mid[k]) => mid[k].parent # i
    BY <1>1, <2>5, <2>6, AskedStep
  <2>8. Early(page, mid, store, Unsaved)
    <3>1. MayWait(page, mid[i], store, Unsaved)
      BY <2>6 DEF MayWait, Past, Loading, Begun
    <3> QED BY <1>2, <2>5, <3>1, StepEarly DEF SamePage
  <2>9. o.session <= sessions /\ o.pc \in Asked \cup Saves /\ HasParent(mid, o)
    BY <1>2, <2>4, <2>6, <2>7 DEF Saves, HasParent
  <2>10. Good(page, ops', store, jobs, sessions, made) /\ Longer(mid, ops', Len(mid) + 1, o)
    BY <1>2, <2>1, <2>4, <2>7, <2>9, AppendGood
  <2>11. Early(page, ops', store, Unsaved)
    <3>1. MayWait(page, o, store, Unsaved)
      BY <2>4 DEF MayWait, Past, Loading, Begun
    <3> QED BY <2>8, <2>10, <3>1, AppendEarly
  <2>12. Backend'
    <3>1. Len(ops') \in Nat /\ Len(ops) <= Len(ops') /\ Len(ops) \in Nat
      BY <2>6, <2>10, Known DEF Longer
    <3>2. settled' \subseteq 1..made
      BY <1>5, Known
    <3> QED BY <1>1, <3>1, <3>2, Known, BackendKept
  <2>13. \A k \in DOMAIN ops' : ops'[k].pc # "new"
    BY <2>4, <2>7, <2>10 DEF Longer
  <2> QED BY <1>1, <1>5, <2>10, <2>11, <2>12, <2>13, SameUnsaved, Assemble
<1> QED BY <1>3, <1>4, <1>5 DEF Answer


-----------------------------------------------------------------------------
(* The theorems.                                                              *)

LEMMA DocumentInit ==
  ASSUME Init
  PROVE DocumentInv
<1> USE DEF Init
<1>1. page \in PageRecord
  BY DEF PageRecord
<1>2. /\ page.session = 0 /\ page.edits = {} /\ page.activeImportJobId = 0 /\ page.gradeOpen = 0
      /\ page.importGeneration = 0 /\ page.projectOpenGeneration = 0 /\ ops = <<>> /\ jobs = <<>>
      /\ sessions = 0 /\ made = 0 /\ early = {} /\ settled = {}
  OBVIOUS
<1>3. ops \in Seq(OpRecord) /\ DOMAIN ops = {} /\ jobs \in Seq(JobRecord) /\ DOMAIN jobs = {} /\ Len(ops) = 0 /\ Len(jobs) = 0
  BY <1>2
<1>4. store \in StoreRecord /\ store.session = 0 /\ store.edits = {} /\ store.holder = 0
  BY DEF StoreRecord
<1>5. files \in [Projects -> Content0] /\ \A p \in Projects : files[p].edits \subseteq 1..made
  BY DEF Content0, Docs
<1>6. left \in Budget
  BY ScenariosAssumption
<1> USE DEF Init
<1>7. Backend
  BY <1>2, <1>3, <1>4, <1>5, <1>6 DEF Backend, StoreFits
<1>8. Claims(page, ops)
  BY <1>2, <1>3 DEF Claims, Shapes, Parents, Gens, Newest, ActiveJob
<1>9. Running(page, ops, jobs) /\ Shown(page, ops, store, jobs) /\ Answers(page, ops, store, jobs)
  BY <1>2, <1>3 DEF Running, Shown, Answers
<1>10. PageFits(page, sessions, made, Len(jobs))
  BY <1>2, <1>3 DEF PageFits
<1>11. Early(page, ops, store, Unsaved)
  BY <1>2, NothingEarly DEF Unsaved
<1> QED BY <1>1, <1>3, <1>7, <1>8, <1>9, <1>10, <1>11 DEF DocumentInv, Good, Ops

LEMMA UserKeeps ==
  ASSUME DocumentInv, User
  PROVE DocumentInv'
<1>1. ASSUME NEW f \in Photos, openDesktopSelection(f) PROVE DocumentInv'
  <2>1. left' \in Budget
    BY <1>1, Spending, Known DEF openDesktopSelection, Rests
  <2>2. "photo" \in Opens /\ f \in Docs \cup {None}
    BY DEF Opens, Docs
  <2> QED BY <1>1, <2>1, <2>2, OpenKeeps DEF openDesktopSelection
<1>2. ASSUME NEW p \in Projects, openProjectFromPath(p) PROVE DocumentInv'
  <2>1. left' \in Budget
    BY <1>2, Spending, Known DEF openProjectFromPath, Rests
  <2>2. "project" \in Opens /\ p \in Docs \cup {None}
    BY DEF Opens, Docs
  <2> QED BY <1>2, <2>1, <2>2, OpenKeeps DEF openProjectFromPath
<1>3. CASE ejectCurrentSession
  <2>1. left' \in Budget
    BY <1>3, Spending, Known DEF ejectCurrentSession, Rests
  <2>2. "eject" \in Opens /\ None \in Docs \cup {None}
    BY DEF Opens
  <2> QED BY <1>3, <2>1, <2>2, OpenKeeps DEF ejectCurrentSession
<1>4. ASSUME NEW as \in BOOLEAN, saveProjectToPath(as) PROVE DocumentInv'
  BY <1>4, SaveKeeps
<1> QED BY <1>1, <1>2, <1>3, <1>4, CancelKeeps, EditKeeps DEF User

LEMMA DocumentStep ==
  ASSUME DocumentInv, [Next]_vars
  PROVE DocumentInv'
<1>1. CASE User
  BY <1>1, UserKeeps
<1>2. ASSUME NEW i \in DOMAIN ops, Question(i) PROVE DocumentInv'
  BY <1>2, AnswerKeeps, ChosenKeeps, PathChosenKeeps, RelinkedKeeps DEF Question
<1>3. ASSUME NEW i \in DOMAIN ops, Resumes(i) PROVE DocumentInv'
  BY <1>3, LeaveKeeps, JobCancelledKeeps, PreparedKeeps, CreatedKeeps, RefusedKeeps, DroppedKeeps, PolledKeeps,
     FetchedKeeps, AttachedKeeps, StartedKeeps, OpenAnsweredKeeps, PresentedKeeps, ClearedKeeps, FlushedKeeps, GrantedKeeps,
     SaveAnsweredKeeps DEF Resumes
<1>4. ASSUME NEW i \in DOMAIN ops, Serves(i) PROVE DocumentInv'
  BY <1>4, StartKeeps, OpenProjectKeeps, OpenDocumentKeeps, ActivateKeeps, SaveProjectKeeps DEF Serves
<1>5. ASSUME NEW j \in DOMAIN jobs, JobEnds(j) PROVE DocumentInv'
  BY <1>5, JobEndsKeeps
<1>6. CASE EditArrives
  BY <1>6, EditArrivesKeeps
<1>7. CASE UNCHANGED vars
  BY <1>7 DEF vars, DocumentInv, Backend, Unsaved, Ops
<1> QED BY <1>1, <1>2, <1>3, <1>4, <1>5, <1>6, <1>7 DEF Next, Ops

\* The invariant that the theorems below rest on.
THEOREM DocumentInvariant == Spec => []DocumentInv
<1>1. Init => DocumentInv
  BY DocumentInit
<1>2. DocumentInv /\ [Next]_vars => DocumentInv'
  BY DocumentStep
<1> QED BY <1>1, <1>2, PTL DEF Spec

\* The variables have their types: what the page, its operations, the backend and
\* the project files hold stays within what was opened, edited and prepared so far.
THEOREM DocumentsTypeCorrect == Spec => []TypeOK
<1>1. DocumentInv => TypeOK
  <2> SUFFICES ASSUME DocumentInv PROVE TypeOK
    OBVIOUS
  <2>1. /\ page \in PageRecord /\ PageFits(page, sessions, made, Len(jobs)) /\ Gens(page, ops)
        /\ ops \in Seq(OpRecord) /\ jobs \in Seq(JobRecord) /\ store \in StoreRecord
        /\ StoreFits(store, sessions, made, Len(ops)) /\ made \in Nat /\ sessions \in Nat
        /\ files \in [Projects -> Content0] /\ \A p \in Projects : files[p].edits \subseteq 1..made
        /\ early \subseteq 1..made /\ settled \subseteq 1..made
    BY Known DEF Backend, Claims
  <2>2. page.session \in Nat /\ page.edits \subseteq Made
    BY <2>1 DEF PageRecord, PageFits, Made
  <2>3. page.path \in Projects \cup {None} /\ page.doc \in Photos \cup Projects \cup {None}
    BY <2>1 DEF PageRecord, Docs
  <2>4. page.activeImportJobId \in 0..Len(jobs) /\ page.gradeOpen \in 0..page.importGeneration
    BY <2>1 DEF PageRecord, PageFits
  <2>5. ASSUME NEW i \in Ops
        PROVE /\ ops[i].kind \in Kinds /\ ops[i].pc \in Waiting \cup Working \cup {"done"}
              /\ ops[i].gen \in 0..page.importGeneration /\ ops[i].pgen \in 0..page.projectOpenGeneration
    <3>1. ops[i] \in OpRecord /\ ops[i].pc # "new"
      BY <2>5, Known DEF Ops
    <3>2. ops[i].gen <= page.importGeneration /\ ops[i].pgen <= page.projectOpenGeneration
      BY <2>1, <2>5 DEF Gens, Ops
    <3>3. page.importGeneration \in Nat /\ page.projectOpenGeneration \in Nat
      BY <2>1 DEF PageRecord
    <3>4. ops[i].kind \in Kinds /\ ops[i].pc \in PCs /\ ops[i].gen \in Nat /\ ops[i].pgen \in Nat
      BY <3>1 DEF OpRecord
    <3>5. ops[i].pc \in Waiting \cup Working \cup {"done"}
      BY <3>1, <3>4 DEF PCs
    <3> QED BY <3>2, <3>3, <3>4, <3>5
  <2>6. store.holder \in 0..Len(ops) /\ store.session \in 0..sessions
    BY <2>1 DEF StoreRecord, StoreFits
  <2>7. \A j \in DOMAIN jobs : jobs[j].state \in {"running", "ready", "error", "cancelled"}
    <3>1. \A j \in DOMAIN jobs : jobs[j] \in JobRecord
      BY <2>1
    <3> QED BY <3>1 DEF JobRecord
  <2>8. files \in [Projects -> Content]
    <3>1. \A p \in Projects : files[p] \in Content0 /\ files[p].edits \subseteq 1..made
      BY <2>1
    <3>2. \A p \in Projects : files[p] \in Content
      BY <3>1 DEF Content0, Content, Made, Docs
    <3> QED BY <2>1, <3>2
  <2> QED BY <2>1, <2>2, <2>3, <2>4, <2>5, <2>6, <2>7, <2>8 DEF TypeOK, Made
<1> QED BY <1>1, DocumentInvariant, PTL

\* An edit made while no transition was past its last question stays on the page
\* until it is saved or given up, however the opens, saves and questions interleave.
THEOREM EarlyEditsAreKept == Spec => []EarlyEditsKept
<1>1. DocumentInv => EarlyEditsKept
  BY Known DEF Early, Unsaved, EarlyEditsKept
<1> QED BY <1>1, DocumentInvariant, PTL

\* The session shown is the one the backend has, unless what the backend has is the
\* session of one particular request: an import that was overtaken and finished all
\* the same, an open whose answer is not in yet, or an eject that came late.
THEOREM ShownSessionIsLive == Spec => []PageIsLive
<1>1. DocumentInv => PageIsLive
  BY Known DEF Shown, PageIsLive, HoldsIn, Holds, Ops
<1> QED BY <1>1, DocumentInvariant, PTL


-----------------------------------------------------------------------------
(* What is shown was asked for last.                                          *)

\* Nothing but the answer to a photo or to a project shows another session.
Hides(pg, q) == q.session \in {pg.session, 0}

LEMMA ContinueHides ==
  ASSUME NEW pg \in PageRecord, NEW os \in Seq(OpRecord), NEW i \in DOMAIN os, os[i].kind \in Opens
  PROVE Hides(pg, Continue(pg, os, i).page)
BY ContinueOutcome DEF Hides, Outcome, Chooses, ClaimsPhoto, ClaimsEject, ClaimsProject, SamePage

LEMMA ConfirmHides ==
  ASSUME NEW pg \in PageRecord, NEW os \in Seq(OpRecord), NEW i \in DOMAIN os, os[i].kind \in Opens
  PROVE Hides(pg, confirmUnsavedTransition(pg, os, i).page)
<1> DEFINE r == confirmUnsavedTransition(pg, os, i)
<1>1. r.page = pg \/ r = Continue(pg, os, i)
  BY DEF confirmUnsavedTransition
<1> HIDE DEF r
<1>2. CASE r.page = pg
  BY <1>2 DEF Hides, r
<1>3. CASE r = Continue(pg, os, i)
  BY <1>3, ContinueHides DEF r
<1> QED BY <1>1, <1>2, <1>3

LEMMA OpenHides ==
  ASSUME DocumentInv, NEW kind \in Opens, NEW f \in Docs \cup {None},
         Becomes(confirmUnsavedTransition(page, Append(ops, Operation(kind, f, "new")), Len(ops) + 1))
  PROVE Hides(page, page')
<1> DEFINE o == Operation(kind, f, "new")
<1> DEFINE out == Append(ops, o)
<1> DEFINE n == Len(ops) + 1
<1>1. o \in OpRecord /\ o.kind = kind
  <2>1. kind \in Kinds /\ "new" \in PCs /\ <<>> \in Tokens /\ None \in Servers
    BY DEF Kinds, Opens, PCs, Tokens, Servers
  <2>2. None \in Docs \cup {None} /\ None \in Content0 \cup {None}
    OBVIOUS
  <2> HIDE DEF None
  <2> QED BY <2>1, <2>2 DEF OpRecord, Operation
<1>2. page' = confirmUnsavedTransition(page, out, n).page
  BY DEF Becomes
<1> HIDE DEF o
<1>3. out \in Seq(OpRecord) /\ n \in DOMAIN out /\ out[n].kind \in Opens
  BY <1>1, Appended, Known
<1> HIDE DEF out, n
<1> QED BY <1>2, <1>3, ConfirmHides, Known

LEMMA FinishHides ==
  ASSUME DocumentInv, NEW q \in PageRecord, NEW i \in DOMAIN ops, ops[i].pc \in Saves, NEW saved \in BOOLEAN
  PROVE Hides(q, Finish(q, ops, i, saved).page)
<1> DEFINE ended == [ops EXCEPT ![i].pc = "done"]
<1> DEFINE parent == ops[i].parent
<1> DEFINE r == Finish(q, ops, i, saved)
<1>1. r.page = q \/ (parent # 0 /\ r = Continue(q, ended, parent))
  BY DEF Finish
<1>2. CASE r.page = q
  BY <1>2 DEF Hides
<1>3. CASE parent # 0 /\ r = Continue(q, ended, parent)
  <2>1. OnlyOp(ops, ended, i) /\ Parents(ops) /\ ops[i].pc # "saving"
    BY Known, Moved DEF PCs, Claims, Saves
  <2>2. parent \in DOMAIN ops /\ ops[parent].pc = "saving"
    BY <1>3, <2>1, SaveKnown DEF Parents
  <2>3. ops[parent].kind \in Opens /\ parent # i
    BY <2>1, <2>2, AskedKnown DEF Asked
  <2> HIDE DEF ended, parent
  <2>4. ended \in Seq(OpRecord) /\ parent \in DOMAIN ended /\ ended[parent].kind \in Opens
    BY <2>1, <2>2, <2>3 DEF OnlyOp
  <2> QED BY <1>3, <2>4, ContinueHides
<1> QED BY <1>1, <1>2, <1>3


LEMMA PageHides ==
  ASSUME NEW pg \in PageRecord
  PROVE /\ Hides(pg, pg) /\ Hides(pg, finishGradeOpen(pg)) /\ Hides(pg, finishGradeOpen(Retire(pg)))
        /\ Hides(pg, [pg EXCEPT !.openDisabled = FALSE]) /\ Hides(pg, [Retire(pg) EXCEPT !.path = None])
        /\ \A j : Hides(pg, [pg EXCEPT !.activeImportJobId = j])
        /\ Hides(pg, [pg EXCEPT !.activeImportJobId = 0, !.importInProgress = FALSE])
BY DEF Hides, finishGradeOpen, Retire, PageRecord

LEMMA PresentedHides ==
  ASSUME NEW pg \in PageRecord
  PROVE /\ Hides(pg, [pg EXCEPT !.grade = FALSE])
        /\ Hides(pg, [[pg EXCEPT !.grade = FALSE] EXCEPT !.openDisabled = FALSE])
BY DEF Hides, PageRecord

LEMMA UserHides ==
  ASSUME DocumentInv, User
  PROVE Hides(page, page')
<1>1. page \in PageRecord
  BY Known
<1>2. ASSUME NEW f \in Photos, openDesktopSelection(f) PROVE Hides(page, page')
  BY <1>2, OpenHides DEF openDesktopSelection, Opens, Docs
<1>3. ASSUME NEW p \in Projects, openProjectFromPath(p) PROVE Hides(page, page')
  BY <1>3, OpenHides DEF openProjectFromPath, Opens, Docs
<1>4. CASE ejectCurrentSession
  BY <1>4, OpenHides DEF ejectCurrentSession, Opens
<1>5. CASE cancelActiveImport
  <2> DEFINE g == page.importGeneration + 1
  <2> DEFINE base == IF page.gradeOpen # 0 THEN Retire(page) ELSE page
  <2> DEFINE stopped == [base EXCEPT !.importGeneration = @ + 1, !.activeImportJobId = 0, !.importInProgress = FALSE]
  <2>1. page' = stopped \/ page' = finishGradeOpen(stopped)
    BY <1>5 DEF cancelActiveImport
  <2>2. Retire(page) \in PageRecord /\ Retire(page).session = 0
    BY <1>1 DEF Retire, PageRecord
  <2>3. base \in PageRecord /\ base.session \in {page.session, 0}
    BY <1>1, <2>2
  <2> HIDE DEF base
  <2>4. stopped.session = base.session /\ finishGradeOpen(stopped).session = base.session
    BY <2>3 DEF PageRecord, finishGradeOpen
  <2> HIDE DEF stopped
  <2> QED BY <2>1, <2>3, <2>4 DEF Hides
<1>6. ASSUME NEW as \in BOOLEAN, saveProjectToPath(as) PROVE Hides(page, page')
  BY <1>6 DEF saveProjectToPath, Hides
<1>7. CASE Edit
  BY <1>1, <1>7 DEF Edit, Hides, PageRecord
<1> QED BY <1>2, <1>3, <1>4, <1>5, <1>6, <1>7 DEF User

LEMMA QuestionHides ==
  ASSUME DocumentInv, NEW i \in DOMAIN ops, Question(i)
  PROVE Hides(page, page')
<1>1. page \in PageRecord /\ ops \in Seq(OpRecord) /\ ops[i] \in OpRecord
  BY Known
<1>2. CASE Answer(i)
  <2>1. ops[i].pc \in Asked
    BY <1>2 DEF Answer, Asked
  <2>2. ops[i].kind \in Opens
    BY <2>1, AskedKnown
  <2>3. page' = page \/ page' = Continue(page, ops, i).page
    <3>1. CASE Becomes(Continue(page, ops, i))
      BY <3>1 DEF Becomes
    <3>2. CASE UNCHANGED page
      BY <3>2
    <3> QED BY <1>2, <3>1, <3>2 DEF Answer
  <2>4. Hides(page, page) /\ Hides(page, Continue(page, ops, i).page)
    BY <1>1, <2>2, ContinueHides, PageHides
  <2> QED BY <2>3, <2>4
<1>3. CASE Chosen(i)
  <2> DEFINE again == [ops EXCEPT ![i].again = TRUE]
  <2> DEFINE x == [ops[i] EXCEPT !.again = TRUE]
  <2>1. ops[i].pc \in Asked /\ ops[i].pc = "choosing"
    BY <1>3 DEF Chosen, Asked
  <2>2. ops[i].kind = "project" /\ ops[i].kind \in Opens
    BY <2>1, AskedKnown DEF Shape
  <2>3. \/ page' = page \/ page' = ClaimProject(page, ops, i).page
        \/ page' = confirmUnsavedTransition(page, again, i).page
    BY <1>3 DEF Chosen, Becomes
  <2>4. x \in OpRecord /\ x.kind = ops[i].kind
    BY <1>1 DEF OpRecord
  <2>5. again = [ops EXCEPT ![i] = x]
    OBVIOUS
  <2> HIDE DEF x, again
  <2>6. again \in Seq(OpRecord) /\ i \in DOMAIN again /\ again[i].kind \in Opens
    BY <1>1, <2>2, <2>4, <2>5
  <2>7. Hides(page, ClaimProject(page, ops, i).page)
    BY <1>1, <2>2, ClaimProjectOutcome DEF Hides, ClaimsProject, SamePage
  <2> QED BY <1>1, <2>3, <2>6, <2>7, ConfirmHides, PageHides
<1>4. CASE PathChosen(i)
  <2>1. page' = page \/ page' = Finish(page, ops, i, FALSE).page
    BY <1>4 DEF PathChosen, Becomes
  <2>2. ops[i].pc \in Saves
    BY <1>4 DEF PathChosen, Saves
  <2> QED BY <1>1, <2>1, <2>2, FinishHides, PageHides
<1>5. CASE Relinked(i)
  <2>1. page' = page \/ page' = [page EXCEPT !.openDisabled = FALSE]
    BY <1>5 DEF Relinked, Becomes, EndProject
  <2> QED BY <1>1, <2>1, PageHides
<1> QED BY <1>2, <1>3, <1>4, <1>5 DEF Question

LEMMA SavesHide ==
  ASSUME DocumentInv, NEW i \in DOMAIN ops, Flushed(i) \/ Granted(i) \/ SaveAnswered(i)
  PROVE Hides(page, page')
<1>1. page \in PageRecord /\ ops \in Seq(OpRecord) /\ ops[i].pc \in Saves
  BY Known DEF Flushed, Granted, SaveAnswered, Saves
<1>2. CASE Flushed(i) \/ Granted(i)
  <2>1. page' = page \/ page' = Finish(page, ops, i, FALSE).page
    BY <1>2 DEF Flushed, Granted, Becomes
  <2> QED BY <1>1, <2>1, FinishHides, PageHides
<1>3. CASE SaveAnswered(i)
  <2> DEFINE q == [page EXCEPT !.path = ops[i].target, !.dirty = FALSE]
  <2>1. page' = Finish(q, ops, i, TRUE).page \/ page' = Finish(page, ops, i, FALSE).page
    BY <1>3 DEF SaveAnswered, Becomes
  <2>2. ops[i].target \in Projects \cup {None}
    BY <1>1, SaveKnown
  <2>3. q \in PageRecord /\ q.session = page.session
    BY <1>1, <2>2 DEF PageRecord
  <2> HIDE DEF q
  <2>4. Hides(q, Finish(q, ops, i, TRUE).page) /\ Hides(page, Finish(page, ops, i, FALSE).page)
    BY <1>1, <2>3, FinishHides
  <2> QED BY <2>1, <2>3, <2>4 DEF Hides
<1> QED BY <1>2, <1>3

LEMMA ResumesHides ==
  ASSUME DocumentInv, NEW i \in DOMAIN ops, Resumes(i), ~Attached(i), ~OpenAnswered(i)
  PROVE Hides(page, page')
<1>1. page \in PageRecord /\ ops \in Seq(OpRecord) /\ ops[i] \in OpRecord
  BY Known
<1>2. CASE leave(i)
  <2> DEFINE mid == [ops EXCEPT ![i].session = 0]
  <2> DEFINE x == [ops[i] EXCEPT !.session = 0]
  <2>1. page' = page \/ page' = Continue(page, mid, i).page
    BY <1>2 DEF leave, Becomes
  <2>2. ops[i].pc \in Asked
    BY <1>2 DEF leave, Asked
  <2>3. ops[i].kind \in Opens
    BY <2>2, AskedKnown
  <2>4. x \in OpRecord /\ x.kind = ops[i].kind
    BY <1>1 DEF OpRecord
  <2>5. mid = [ops EXCEPT ![i] = x]
    OBVIOUS
  <2> HIDE DEF x, mid
  <2>6. mid \in Seq(OpRecord) /\ i \in DOMAIN mid /\ mid[i].kind \in Opens
    BY <1>1, <2>3, <2>4, <2>5
  <2> QED BY <1>1, <2>1, <2>6, ContinueHides, PageHides
<1>3. CASE JobCancelled(i)
  <2> DEFINE begun == BeginProject(page, ops, i).page
  <2>1. page' = page \/ page' = finishGradeOpen(page) \/ page' = begun
    <3>1. ops[i].kind \in {"photo", "project", "eject", "cancel"}
      BY <1>1, <1>3, Known DEF JobCancelled, OpRecord, Kinds, Shape
    <3> QED BY <1>3, <3>1 DEF JobCancelled, Becomes
  <2>2. Hides(page, begun)
    BY <1>1 DEF BeginProject, Hides, PageRecord
  <2> QED BY <1>1, <2>1, <2>2, PageHides
<1>4. CASE Prepared(i) \/ Refused(i) \/ Polled(i)
  <2>1. page' \in {page, finishGradeOpen(page), finishGradeOpen(Retire(page))}
    BY <1>4 DEF Prepared, Refused, Polled, PhotoFails
  <2> QED BY <1>1, <2>1, PageHides
<1>5. CASE Created(i) \/ Fetched(i)
  <2>1. \/ page' = page \/ page' = [page EXCEPT !.activeImportJobId = ops[i].job]
        \/ page' = [page EXCEPT !.activeImportJobId = 0, !.importInProgress = FALSE]
        \/ page' = finishGradeOpen(Retire(page))
    BY <1>5 DEF Created, Fetched, PhotoFails
  <2> QED BY <1>1, <2>1, PageHides
<1>6. CASE Dropped(i) \/ Started(i)
  <2>1. page' = page \/ page' = [page EXCEPT !.openDisabled = FALSE]
    BY <1>6 DEF Dropped, Started, Becomes, EndProject
  <2> QED BY <1>1, <2>1, PageHides
<1>7. CASE Cleared(i)
  <2>1. page' = [Retire(page) EXCEPT !.path = None]
    BY <1>7 DEF Cleared
  <2> QED BY <1>1, <2>1, PageHides
<1>8. CASE Presented(i)
  <2>1. \/ page' \in {page, finishGradeOpen(page), finishGradeOpen(Retire(page))}
        \/ page' = [page EXCEPT !.grade = FALSE]
        \/ page' = [[page EXCEPT !.grade = FALSE] EXCEPT !.openDisabled = FALSE]
    BY <1>8 DEF Presented, PhotoFails, Becomes, EndProject
  <2> QED BY <1>1, <2>1, PageHides, PresentedHides
<1> QED BY <1>2, <1>3, <1>4, <1>5, <1>6, <1>7, <1>8, SavesHide DEF Resumes


\* The operation i is the last one that asked for what is shown now.
ShowsNewest(i) ==
  /\ ops'[i].session = page'.session
  /\ \A k \in Ops : ops[k].gen > ops[i].gen => ops[k].kind = "cancel" /\ ops[i].kind = "project"

LEMMA AttachedShows ==
  ASSUME DocumentInv, NEW i \in DOMAIN ops, Attached(i)
  PROVE Hides(page, page') \/ ShowsNewest(i)
<1> DEFINE session == jobs[ops[i].job].session
<1> DEFINE content == [doc |-> ops[i].target, edits |-> {}]
<1>1. page \in PageRecord /\ ops \in Seq(OpRecord) /\ ops[i] \in OpRecord /\ Gens(page, ops)
  BY Known DEF Claims
<1>2. CASE page' \in {page, finishGradeOpen(Retire(page))}
  BY <1>1, <1>2, PageHides
<1>3. CASE /\ ~Stale(page, ops[i])
           /\ page' = activateDesktopSession(page, session, content, None)
           /\ ops' = [ops EXCEPT ![i].pc = "showing", ![i].session = session]
  <2> HIDE DEF session, content
  <2>1. page'.session = session
    BY <1>1, <1>3 DEF activateDesktopSession, PageRecord
  <2>2. ops'[i].session = session
    BY <1>1, <1>3 DEF OpRecord
  <2>3. ASSUME NEW k \in Ops PROVE ~(ops[k].gen > ops[i].gen)
    <3>1. ops[k] \in OpRecord /\ ops[k].gen <= page.importGeneration
      BY <1>1, <2>3 DEF Gens, Ops
    <3>2. ops[i].gen = page.importGeneration
      BY <1>3 DEF Stale
    <3>3. ops[k].gen \in Nat /\ page.importGeneration \in Nat
      BY <1>1, <3>1 DEF OpRecord, PageRecord
    <3> QED BY <3>1, <3>2, <3>3
  <2> QED BY <2>1, <2>2, <2>3 DEF ShowsNewest
<1> QED BY <1>2, <1>3 DEF Attached, PhotoFails

LEMMA OpenAnsweredShows ==
  ASSUME DocumentInv, NEW i \in DOMAIN ops, OpenAnswered(i)
  PROVE Hides(page, page') \/ ShowsNewest(i)
<1>1. page \in PageRecord /\ ops \in Seq(OpRecord) /\ ops[i] \in OpRecord /\ ops[i].pgen # 0
  BY Known DEF OpenAnswered, Shape, Begun
<1>2. CASE page' \in {page, [page EXCEPT !.openDisabled = FALSE]}
  BY <1>1, <1>2, PageHides
<1>3. CASE /\ ~Aborted(page, ops[i])
           /\ page' = activateDesktopSession(page, ops[i].session, ops[i].read, ops[i].target)
           /\ ops' = [ops EXCEPT ![i].server = "shown", ![i].pc = "showing"]
  <2> DEFINE session == ops[i].session
  <2> DEFINE read == ops[i].read
  <2> DEFINE target == ops[i].target
  <2> DEFINE q == activateDesktopSession(page, session, read, target)
  <2>1. page' = q /\ ops' = [ops EXCEPT ![i].server = "shown", ![i].pc = "showing"]
    BY <1>3
  <2> HIDE DEF session, read, target
  <2>2. page'.session = session
    BY <1>1, <2>1 DEF activateDesktopSession, PageRecord
  <2>3. ops'[i].session = session
    BY <1>1, <2>1 DEF OpRecord, session
  <2>4. /\ \A k \in DOMAIN ops : k # i /\ ops[k].kind # "cancel" => ops[k].gen < ops[i].gen
        /\ ops[i].kind = "project"
    BY <1>1, <1>3, NewestAlone
  <2>5. ASSUME NEW k \in Ops, ops[k].gen > ops[i].gen PROVE ops[k].kind = "cancel"
    <3>1. ops[k] \in OpRecord
      BY <1>1, <2>5 DEF Ops
    <3>2. ops[k].gen \in Nat /\ ops[i].gen \in Nat
      BY <1>1, <3>1 DEF OpRecord
    <3> QED BY <2>4, <2>5, <3>2 DEF Ops
  <2> QED BY <2>2, <2>3, <2>4, <2>5 DEF ShowsNewest
<1> QED
  <2>1. \A os : EndProject(page, os, i).page \in {page, [page EXCEPT !.openDisabled = FALSE]}
    BY DEF EndProject
  <2> QED BY <1>2, <1>3, <2>1 DEF OpenAnswered, Becomes

LEMMA NewestStep ==
  ASSUME DocumentInv, [Next]_vars
  PROVE Hides(page, page') \/ \E i \in Ops : ShowsNewest(i)
<1>1. CASE User
  BY <1>1, UserHides
<1>2. ASSUME NEW i \in DOMAIN ops, Question(i) PROVE Hides(page, page')
  BY <1>2, QuestionHides
<1>3. ASSUME NEW i \in DOMAIN ops, Resumes(i) PROVE Hides(page, page') \/ ShowsNewest(i)
  BY <1>3, ResumesHides, AttachedShows, OpenAnsweredShows
<1>4. CASE UNCHANGED page
  BY <1>4 DEF Hides
<1>5. ASSUME NEW i \in DOMAIN ops, Serves(i) PROVE UNCHANGED page
  BY <1>5 DEF Serves, start, open_project, open_document, activate_session, save_project
<1>6. ASSUME NEW j \in DOMAIN jobs, JobEnds(j) PROVE UNCHANGED page
  BY <1>6 DEF JobEnds
<1>7. CASE EditArrives \/ UNCHANGED vars
  BY <1>4, <1>7 DEF EditArrives, vars
<1> QED BY <1>1, <1>2, <1>3, <1>4, <1>5, <1>6, <1>7 DEF Next, Ops

\* The page installs a session only for the newest request that claimed it: a
\* photo's only as the newest of all, a project's only with cancels after it.
THEOREM NewestIsShown == Spec => NewestShown
<1>1. DocumentInv /\ [Next]_vars
      => [page'.session # page.session /\ page'.session # 0 =>
            \E i \in Ops : /\ ops'[i].session = page'.session
                           /\ \A k \in Ops : ops[k].gen > ops[i].gen =>
                                ops[k].kind = "cancel" /\ ops[i].kind = "project"]_vars
  BY NewestStep DEF Hides, ShowsNewest
<1> QED BY <1>1, DocumentInvariant, PTL DEF Spec, NewestShown
=============================================================================
