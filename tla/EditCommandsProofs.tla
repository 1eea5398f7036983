-------------------------- MODULE EditCommandsProofs --------------------------
(* Proofs about the page's edit queue, for any number of slider edits, drags,  *)
(* local commits, undo and redo presses, Match presses, photos opened and      *)
(* requests lost: the page at rest shows its session, answers keep what is     *)
(* newer on the page, undo waits for the edits before it, a drag is one step.  *)
EXTENDS EditCommands, WellFoundedInduction, FiniteSetTheorems, SequenceTheorems, TLAPS

-----------------------------------------------------------------------------
(* The invariant. *)

\* What may wait behind a save, and what may be queued: only a save has others
\* waiting behind it.
Ends == [type : {"end"}, group : Nat]
Waiting == [type : {"local", "undo", "redo"}, sid : Nat, value : SUBSET LocalIds, gen : Nat, group : Nat,
            seen : SUBSET GlobalIds, after : {<<>>}]
Saves == [type : {"global"}, sid : Nat, value : SUBSET GlobalIds, gen : Nat, group : Nat,
          seen : SUBSET GlobalIds, after : Seq(Ends \cup Waiting)]
Commands == Saves \cup Waiting

\* The types of the session, the page and what is still to come.
Session == [sid : Nat, rev : Nat, global : SUBSET GlobalIds, local : SUBSET LocalIds,
            ever : SUBSET GlobalIds, undo : Seq(Entry), redo : Seq(Entry)]
Page == [sid : Nat, rev : Nat, adj : SUBSET GlobalIds, locals : SUBSET LocalIds, dirty : BOOLEAN,
         gen : Nat, held : BOOLEAN, group : Nat, seq : Nat, depth : Nat, drags : Seq(Nat)]
Left == [slide : 0..Slides, local : 0..Locals, history : 0..Histories, other : 0..Others, drag : 0..Drags]

\* The page p shows the photo of the session.
Now(p) == p.sid = server.sid

\* Between a save and the queue its waiting commands are in hand: those of w after
\* the first n. The parts below speak of a page p, a queue q and such a hand, so
\* that they say what holds between two steps of Resume too.
Hand(w, n) == {k \in DOMAIN w : k > n}

\* Commands of one photo.
LocalOf(c, s) == c.type = "local" /\ c.sid = s
Goes(c, s) == c.type # "end" /\ c.sid = s
UndoOf(c, s) == c.type = "undo" /\ c.sid = s

\* What the saves at the first n places bring, and all of them.
Values(p, q, n) == UNION {q[i].value : i \in {i \in Pending(p, q) : i <= n}}
Coming(p, q) == Values(p, q, Len(q))

\* The page never shows a photo the session has not had, nor does the queue hold
\* one the page has not had; what waits is of the photo of its save.
Sessions(p, q, w, n) ==
  /\ p.sid <= server.sid
  /\ \A i \in DOMAIN q : q[i].sid <= p.sid
  /\ \A i \in DOMAIN q : \A k \in DOMAIN q[i].after : q[i].after[k].type # "end" => q[i].after[k].sid = q[i].sid
  /\ \A k \in Hand(w, n) : w[k].type # "end" => w[k].sid <= p.sid

\* A save older than the page is followed by another, or the page is unsaved; the
\* newest has every value of the page.
Generations(p, q) == Now(p) =>
  \A i \in Pending(p, q) :
    /\ q[i].gen <= p.gen
    /\ q[i].gen # p.gen => p.dirty \/ \E j \in Pending(p, q) : i < j
    /\ q[i].gen = p.gen => p.adj \subseteq q[i].value \cup server.ever

\* At rest, on one revision, the page shows the session's sliders.
Showing(p, q) ==
  Now(p) /\ p.rev = server.rev /\ ~p.dirty /\ Pending(p, q) = {} => p.adj = server.global

\* What the page showed when an undo was pressed is saved before it.
Undos(p, q, w, n, t) == Now(p) /\ "failed" \notin t =>
  /\ \A i \in DOMAIN q :
       /\ UndoOf(q[i], p.sid) => q[i].seen \subseteq server.ever \cup Values(p, q, i)
       /\ \A k \in DOMAIN q[i].after :
            UndoOf(q[i].after[k], p.sid) => q[i].after[k].seen \subseteq server.ever \cup Values(p, q, i)
  /\ \A k \in Hand(w, n) :
       UndoOf(w[k], p.sid) => w[k].seen \subseteq server.ever \cup Coming(p, q) \cup (IF p.dirty THEN p.adj ELSE {})

\* A page with nothing unsaved has only values that are saved or on their way.
Unsaved(p, q, t) ==
  Now(p) /\ "failed" \notin t /\ ~p.dirty => p.adj \subseteq server.ever \cup Coming(p, q)

\* The slider edits made so far, and those of Match.
Made(p) == (1..Len(p.drags)) \cup ((Slides + 1)..(Slides + Others))

\* A gesture whose end waits was begun before.
Gone(p, c) == c.type = "end" => c.group <= p.seq /\ (p.held => c.group < p.seq)

\* Only edits that were made are anywhere, and gestures are begun one at a time.
Gestures(p, q, w, n) ==
  /\ p.adj \subseteq Made(p)
  /\ \A i \in DOMAIN q : q[i].type = "global" => q[i].value \subseteq Made(p)
  /\ p.group <= p.seq
  /\ p.held => p.group = p.seq /\ p.seq > 0
  /\ \A i \in DOMAIN q : \A k \in DOMAIN q[i].after : Gone(p, q[i].after[k])
  /\ \A k \in Hand(w, n) : Gone(p, w[k])

\* A gesture's end is in hand.
EndWaits(w, n) == \E k \in Hand(w, n) : w[k].type = "end"

\* A value of a gesture that is saved nowhere is of the gesture the page is in, or
\* in the save of that gesture.
Dragged(p, q, w, n, t) == Now(p) /\ "failed" \notin t =>
  /\ \A e \in (p.adj \cap DOMAIN p.drags) \ (server.ever \cup Coming(p, q)) :
       p.drags[e] = NoGroup \/ ((p.held \/ EndWaits(w, n)) /\ p.drags[e] = p.group)
  /\ \A i \in Pending(p, q) :
       \A e \in (q[i].value \cap DOMAIN p.drags) \ (server.ever \cup Values(p, q, i - 1)) :
         p.drags[e] \in {NoGroup, q[i].group}

\* The places of local commands, and how many there are.
Spot(p, q, w, n, i, k) ==
  \/ i \in DOMAIN q /\ k = 0 /\ LocalOf(q[i], p.sid)
  \/ i \in DOMAIN q /\ k \in DOMAIN q[i].after /\ LocalOf(q[i].after[k], p.sid)
  \/ i = 0 /\ k \in Hand(w, n) /\ LocalOf(w[k], p.sid)
Spots(p, q, w, n) == {ik \in Nat \X Nat : Spot(p, q, w, n, ik[1], ik[2])}
Number(p, q, w, n) == Cardinality(Spots(p, q, w, n))

\* No local command of another photo is left in the queue, or in hand.
Mine(q, s) == \A i \in DOMAIN q :
  (q[i].type = "local" => q[i].sid = s)
  /\ \A k \in DOMAIN q[i].after : q[i].after[k].type = "local" => q[i].after[k].sid = s
MineHand(w, n, s) == \A k \in Hand(w, n) : w[k].type = "local" => w[k].sid = s

\* The page counts its local commands, or fewer if it inherited some.
Depths(p, q, w, n, t) ==
  /\ p.depth <= Number(p, q, w, n)
  /\ "inherited" \notin t => p.depth = Number(p, q, w, n) /\ Mine(q, p.sid) /\ MineHand(w, n, p.sid)

\* Commands that wait for a save, and the one at a place.
Item(q, w, i, k) == IF i = 0 THEN w[k] ELSE q[i].after[k]
Later(p, q, w, n, i, k) ==
  \/ i \in DOMAIN q /\ k \in DOMAIN q[i].after /\ Goes(q[i].after[k], p.sid)
  \/ i = 0 /\ k \in Hand(w, n) /\ Goes(w[k], p.sid)

\* Unless one was overtaken, at most one command of the photo waits.
Alone(p, q, w, n, t) == Now(p) /\ "overtaken" \notin t =>
  \A i, k, j, l \in Nat : Later(p, q, w, n, i, k) /\ Later(p, q, w, n, j, l) => i = j /\ k = l

\* The last local commit in the queue, and one that waits.
Newest(p, q, i) == LocalOf(q[i], p.sid) /\ \A j \in DOMAIN q : j > i => ~LocalOf(q[j], p.sid)
LaterLocal(p, q, w, n, i, k) == Later(p, q, w, n, i, k) /\ Item(q, w, i, k).type = "local"

\* With none in the queue, the page has the session's strokes; else the newest
\* commit has the page's. Not so if the head will not be applied.
Strokes(p, q, w, n, t, d) == Now(p) /\ "failed" \notin t /\ "overtaken" \notin t /\ ~d =>
  /\ Spots(p, q, w, n) = {} /\ p.rev = server.rev => p.locals = server.local
  /\ p.depth > 0 =>
       /\ \A i, k \in Nat : LaterLocal(p, q, w, n, i, k) => Item(q, w, i, k).value = p.locals
       /\ \A i \in DOMAIN q : Newest(p, q, i) =>
            q[i].value = p.locals \/ \E j, l \in Nat : LaterLocal(p, q, w, n, j, l)

\* The types of all three.
Shaped(p, q, w) == p \in Page /\ q \in Seq(Commands) /\ w \in Seq(Ends \cup Waiting)

\* What the invariant says of a page, its queue and a hand.
InPage(p, q, w, n, t, d) ==
  /\ Shaped(p, q, w) /\ Sessions(p, q, w, n) /\ Generations(p, q) /\ Showing(p, q)
  /\ Undos(p, q, w, n, t) /\ Unsaved(p, q, t) /\ Gestures(p, q, w, n) /\ Dragged(p, q, w, n, t)
  /\ Depths(p, q, w, n, t) /\ Alone(p, q, w, n, t) /\ Strokes(p, q, w, n, t, d)

\* A request with a document of the session, and what it says of the session now.
Known(r) == r.phase \in {"answered", "read"} /\ r.answer = "ok"
Served(r) == r.phase = "answered" /\ r.answer = "ok"
Told(r) == Known(r) /\ r.sid = server.sid =>
  /\ r.doc.rev <= server.rev
  /\ r.doc.global \subseteq server.ever
  /\ r.doc.rev = server.rev => r.doc.global = server.global /\ r.doc.local = server.local

\* The types of the other variables.
Shapes ==
  /\ server \in Session /\ call \in Call /\ match \in Call /\ left \in Left /\ trouble \subseteq Troubles

\* The head command has the request, and what it was answered is in the session.
Requests ==
  /\ call = Idle \/ (call.phase # "idle" /\ queue # <<>> /\ call.sid = Head(queue).sid)
  /\ match = Idle \/ (match.phase # "idle" /\ match.sid <= page.sid /\ left.other < Others)
  /\ Told(call) /\ Told(match)
  /\ (call.phase = "answered" => call.answer # "none") /\ (match.phase = "answered" => match.answer # "none")
  /\ (Known(call) => call.doc.global \subseteq Made(page)) /\ (Known(match) => match.doc.global \subseteq Made(page))
  /\ Served(call) /\ call.sid = server.sid =>
       /\ Head(queue).type = "global" => Head(queue).value \subseteq server.ever
       /\ Head(queue).type = "local" => call.doc.local = Head(queue).value

\* A session the page has not opened yet has not been edited.
Fresh == ~Now(page) =>
  server.rev = 0 /\ server.global = {} /\ server.local = {} /\ server.ever = {}
  /\ server.undo = <<>> /\ server.redo = <<>>

\* The page is never ahead of its session.
Revisions == Now(page) => page.rev <= server.rev

\* An undo step has values the session knew, and brings in values of one gesture;
\* steps next to each other are not of the same gesture.
EntryOK(e, ever) ==
  /\ e.new \subseteq ever
  /\ e.type = "global" => e.before \subseteq ever /\ e.after \subseteq ever
  /\ e.type = "local" => e.new = {} /\ e.before \subseteq LocalIds /\ e.after \subseteq LocalIds
OfDrag(e, drags) == \A x \in e.new \cap DOMAIN drags : drags[x] \in {NoGroup, e.group}
Apart(a, b) == a.group = b.group /\ a.type = "global" /\ b.type = "global" => a.group = NoGroup

\* A history, and the two of a session, which meet at their ends.
Sound(h, ever, drags, ok) ==
  /\ \A i \in DOMAIN h : EntryOK(h[i], ever) /\ (ok => OfDrag(h[i], drags))
  /\ \A i \in DOMAIN h : i + 1 \in DOMAIN h => Apart(h[i + 1], h[i])
History(s, drags, ok) ==
  /\ Sound(s.undo, s.ever, drags, ok) /\ Sound(s.redo, s.ever, drags, ok)
  /\ s.undo # <<>> /\ s.redo # <<>> => Apart(Last(s.undo), Last(s.redo))
  /\ s.global \subseteq s.ever

\* The gestures of all slider edits are known.
Counted == Len(page.drags) = Slides - left.slide /\ server.ever \subseteq Made(page)

\* Unless a command was lost, two requests of one photo do not both hold: the first
\* to be answered makes the other's revision old.
Racing == Now(page) /\ "failed" \notin trouble =>
  /\ call.phase = "sent" /\ call.sid = page.sid => call.rev <= page.rev
  /\ match.phase = "sent" /\ match.sid = page.sid => match.rev <= page.rev
  /\ Served(call) /\ call.sid = page.sid => page.rev < call.doc.rev
  /\ Served(match) /\ match.sid = page.sid => page.rev < match.doc.rev
  /\ ~(Served(call) /\ call.sid = page.sid /\ Served(match) /\ match.sid = page.sid)
  /\ match.phase \in {"asked", "read"} => match.sid # page.sid

\* The command at the head will not be applied.
Doomed ==
  \/ call # Idle /\ call.sid # page.sid
  \/ call.phase = "sent" /\ call.rev # server.rev
  \/ call.phase = "answered" /\ call.answer # "ok"
  \/ call.phase \in {"asked", "read"}

\* The inductive invariant.
EditInv ==
  /\ Shapes /\ Requests /\ Fresh /\ Revisions /\ History(server, page.drags, "failed" \notin trouble) /\ Counted /\ Racing
  /\ InPage(page, queue, <<>>, 0, trouble, Doomed)

-----------------------------------------------------------------------------
(* Commands, queues and hands. *)

\* What the types say.
LEMMA CommandIs ==
  ASSUME NEW c \in Commands
  PROVE  /\ c.type \in {"global", "local", "undo", "redo"} /\ c.sid \in Nat /\ c.gen \in Nat /\ c.group \in Nat
         /\ c.seen \subseteq GlobalIds /\ c.after \in Seq(Ends \cup Waiting)
         /\ c.type = "global" => c.value \subseteq GlobalIds
         /\ c.type # "global" => c \in Waiting /\ c.after = <<>>
<1>1. CASE c \in Saves BY <1>1 DEF Saves
<1>2. CASE c \in Waiting
  <2>1. c.after = <<>> BY <1>2 DEF Waiting
  <2>2. <<>> \in Seq(Ends \cup Waiting) OBVIOUS
  <2> QED BY <1>2, <2>1, <2>2 DEF Waiting
<1> QED BY <1>1, <1>2 DEF Commands

LEMMA WaitingIs ==
  ASSUME NEW c \in Ends \cup Waiting
  PROVE  /\ c.type = "end" => c.group \in Nat
         /\ c.type # "end" => c \in Waiting /\ c \in Commands /\ c.type \in {"local", "undo", "redo"} /\ c.sid \in Nat
                              /\ c.seen \subseteq GlobalIds /\ c.value \subseteq LocalIds /\ c.after = <<>>
<1>1. CASE c \in Ends BY <1>1 DEF Ends
<1>2. CASE c \in Waiting BY <1>2 DEF Waiting, Commands
<1> QED BY <1>1, <1>2

\* Sequences: a head taken off, an element put on, two joined.
LEMMA PopIs ==
  ASSUME NEW q \in Seq(Commands), q # <<>>
  PROVE  /\ Tail(q) \in Seq(Commands) /\ Head(q) \in Commands /\ q[1] = Head(q) /\ 1 \in DOMAIN q
         /\ Len(q) \in Nat /\ Len(q) > 0 /\ Len(Tail(q)) = Len(q) - 1
         /\ \A i \in DOMAIN Tail(q) : i \in Nat /\ i + 1 \in DOMAIN q /\ Tail(q)[i] = q[i + 1]
         /\ \A i \in DOMAIN q : i \in Nat /\ i > 0 /\ (i = 1 \/ (i - 1 \in DOMAIN Tail(q) /\ Tail(q)[i - 1] = q[i]))
OBVIOUS

LEMMA PushIs ==
  ASSUME NEW S, NEW q \in Seq(S), NEW c \in S
  PROVE  /\ Append(q, c) \in Seq(S) /\ Len(q) \in Nat /\ Len(Append(q, c)) = Len(q) + 1
         /\ Append(q, c)[Len(q) + 1] = c /\ Len(q) + 1 \in DOMAIN Append(q, c) /\ Len(q) + 1 \notin DOMAIN q
         /\ \A i \in DOMAIN q : i \in Nat /\ i > 0 /\ i <= Len(q) /\ i \in DOMAIN Append(q, c) /\ Append(q, c)[i] = q[i]
         /\ \A i \in DOMAIN Append(q, c) : i \in DOMAIN q \/ i = Len(q) + 1
OBVIOUS

\* The same command, whatever waits for it.
Alike(a, b) == /\ a.type = b.type /\ a.sid = b.sid /\ a.value = b.value /\ a.gen = b.gen /\ a.group = b.group
               /\ a.seen = b.seen

LEMMA JoinIs ==
  ASSUME NEW S, NEW a \in Seq(S), NEW b \in Seq(S)
  PROVE  /\ a \o b \in Seq(S) /\ Len(a) \in Nat /\ Len(b) \in Nat /\ Len(a \o b) = Len(a) + Len(b)
         /\ \A k \in DOMAIN a : k \in Nat /\ k > 0 /\ k <= Len(a) /\ k \in DOMAIN (a \o b) /\ (a \o b)[k] = a[k]
         /\ \A k \in DOMAIN b : k \in Nat /\ k > 0 /\ Len(a) + k \in DOMAIN (a \o b) /\ (a \o b)[Len(a) + k] = b[k]
         /\ \A k \in DOMAIN (a \o b) : k \in DOMAIN a \/ (k - Len(a) \in DOMAIN b /\ (a \o b)[k] = b[k - Len(a)] /\ k > Len(a))
OBVIOUS

\* A save to which more commands are attached.
LEMMA AttachIs ==
  ASSUME NEW q \in Seq(Commands), NEW i \in DOMAIN q, q[i].type = "global", NEW w \in Seq(Ends \cup Waiting)
  PROVE  LET r == [q EXCEPT ![i].after = @ \o w]
         IN /\ r \in Seq(Commands) /\ DOMAIN r = DOMAIN q /\ Len(r) = Len(q)
            /\ \A j \in DOMAIN q : Alike(r[j], q[j])
            /\ \A j \in DOMAIN q : j # i => r[j] = q[j]
            /\ r[i].after = q[i].after \o w
<1> DEFINE r == [q EXCEPT ![i].after = @ \o w]
           b == q[i].after \o w
           c == [q[i] EXCEPT !.after = b]
<1>0. q[i] \in Commands OBVIOUS
<1>1. q[i] \in Saves BY <1>0, CommandIs DEF Commands, Waiting
<1>2. q[i].after \in Seq(Ends \cup Waiting) BY <1>0, CommandIs
<1>3. b \in Seq(Ends \cup Waiting) BY <1>2, JoinIs
<1> HIDE DEF b
<1>4. c \in Saves /\ Alike(c, q[i]) /\ c.after = b BY <1>1, <1>3 DEF Saves, Alike
<1>5. c \in Commands BY <1>4 DEF Commands
<1>6. r = [q EXCEPT ![i] = c] BY DEF b
<1> HIDE DEF c, r
<1>7. r \in Seq(Commands) /\ DOMAIN r = DOMAIN q /\ Len(r) = Len(q) BY <1>5, <1>6
<1>8. r[i] = c /\ \A j \in DOMAIN q : j # i => r[j] = q[j] BY <1>6
<1>9. \A j \in DOMAIN q : Alike(r[j], q[j])
  <2> SUFFICES ASSUME NEW j \in DOMAIN q PROVE Alike(r[j], q[j]) OBVIOUS
  <2>1. CASE j = i BY <2>1, <1>4, <1>8
  <2>2. CASE j # i BY <2>2, <1>8 DEF Alike
  <2> QED BY <2>1, <2>2
<1> QED BY <1>4, <1>7, <1>8, <1>9 DEF r, b

\* A set of naturals that is not empty has a least element.
LEMMA Least ==
  ASSUME NEW T, T \subseteq Nat, T # {}
  PROVE  \E x \in T : \A y \in T : x <= y
<1> DEFINE R == OpToRel(<, Nat)
<1>1. IsWellFoundedOn(R, Nat) BY NatLessThanWellFounded
<1>2. R = {ss \in Nat \X Nat : ss[1] < ss[2]} BY DEF OpToRel
<1> HIDE DEF R
<1>3. PICK x \in T : \A y \in T : ~ (<<y, x>> \in R) BY <1>1, WFMin
<1>4. \A y \in T : <<y, x>> \in Nat \X Nat OBVIOUS
<1>5. \A y \in T : ~(y < x) BY <1>2, <1>3, <1>4
<1> QED BY <1>5

\* The function in Resume exists, and keeps what each of its steps keeps.
LEMMA ResumeExists ==
  ASSUME NEW p, NEW q, NEW w, NEW applied, Len(w) \in Nat
  PROVE  \E f : /\ f = [n \in 0..Len(w) |->
                         IF n = 0 THEN [page |-> p, queue |-> q] ELSE Resumed(f[n - 1], w[n], applied)]
                /\ Resume(p, q, w, applied) = f[Len(w)]
<1> DEFINE Up(f, m) == f = [n \in 0..m |->
                         IF n = 0 THEN [page |-> p, queue |-> q] ELSE Resumed(f[n - 1], w[n], applied)]
           T == {m \in Nat : ~ \E f : Up(f, m)}
<1>1. T = {}
  <2> SUFFICES ASSUME T # {} PROVE FALSE OBVIOUS
  <2>1. T \subseteq Nat OBVIOUS
  <2> HIDE DEF T
  <2>2. PICK m \in T : \A y \in T : m <= y BY <2>1, Least
  <2>3. m \in Nat BY <2>1
  <2>4. CASE m = 0
    <3>1. Up([n \in 0..0 |-> [page |-> p, queue |-> q]], 0) OBVIOUS
    <3> QED BY <2>4, <3>1 DEF T
  <2>5. CASE m # 0
    <3>1. m - 1 \in Nat /\ m - 1 \notin T BY <2>2, <2>3, <2>5
    <3>2. PICK g : Up(g, m - 1) BY <3>1 DEF T
    <3> DEFINE f == [n \in 0..m |-> IF n < m THEN g[n] ELSE Resumed(g[n - 1], w[n], applied)]
    <3>3. \A n \in 0..m : f[n] = IF n = 0 THEN [page |-> p, queue |-> q] ELSE Resumed(f[n - 1], w[n], applied)
      <4> SUFFICES ASSUME NEW n \in 0..m
                   PROVE  f[n] = IF n = 0 THEN [page |-> p, queue |-> q] ELSE Resumed(f[n - 1], w[n], applied)
        OBVIOUS
      <4>1. CASE n = 0
        <5>1. g[0] = [page |-> p, queue |-> q] BY <3>1, <3>2
        <5> QED BY <4>1, <5>1, <2>3, <2>5
      <4>2. CASE n # 0
        <5>1. n - 1 \in 0..m /\ n - 1 < m /\ n \in 1..m BY <2>3, <4>2
        <5>2. f[n - 1] = g[n - 1] BY <5>1
        <5>3. CASE n < m
          <6>1. n \in 0..(m - 1) BY <5>3, <2>3
          <6>2. g[n] = IF n = 0 THEN [page |-> p, queue |-> q] ELSE Resumed(g[n - 1], w[n], applied)
            BY <6>1, <3>2
          <6>3. f[n] = g[n] BY <5>3
          <6> QED BY <6>2, <6>3, <5>2
        <5>4. CASE ~ n < m
          <6>1. f[n] = Resumed(g[n - 1], w[n], applied) BY <5>4
          <6> QED BY <6>1, <5>2, <4>2
        <5> QED BY <5>3, <5>4
      <4> QED BY <4>1, <4>2
    <3>4. f = [n \in 0..m |-> f[n]] OBVIOUS
    <3> HIDE DEF f
    <3>5. Up(f, m) BY <3>3, <3>4
    <3> QED BY <3>5, <2>2 DEF T
  <2> QED BY <2>4, <2>5
<1>3. \E f : Up(f, Len(w)) BY <1>1
<1> DEFINE F == CHOOSE f : Up(f, Len(w))
<1>4. Up(F, Len(w)) BY <1>3
<1>5. Resume(p, q, w, applied) = F[Len(w)] BY DEF Resume
<1> HIDE DEF F
<1> QED BY <1>4, <1>5

LEMMA ResumeInduct ==
  ASSUME NEW p, NEW q, NEW w, NEW applied, Len(w) \in Nat, NEW Good,
         [page |-> p, queue |-> q] \in Good[0],
         \A n \in 1..Len(w) : \A at \in Good[n - 1] : Resumed(at, w[n], applied) \in Good[n]
  PROVE  Resume(p, q, w, applied) \in Good[Len(w)]
<1>1. PICK f : /\ f = [n \in 0..Len(w) |->
                         IF n = 0 THEN [page |-> p, queue |-> q] ELSE Resumed(f[n - 1], w[n], applied)]
                /\ Resume(p, q, w, applied) = f[Len(w)]
  BY ResumeExists
<1> DEFINE T == {n \in 0..Len(w) : f[n] \notin Good[n]}
<1>2. T = {}
  <2> SUFFICES ASSUME T # {} PROVE FALSE OBVIOUS
  <2>1. T \subseteq Nat OBVIOUS
  <2>2. PICK m \in T : \A y \in T : m <= y
    <3> HIDE DEF T
    <3> QED BY <2>1, Least
  <2>3. m \in 0..Len(w) /\ f[m] \notin Good[m] OBVIOUS
  <2> HIDE DEF T
  <2>4. CASE m = 0
    <3>1. f[0] = [page |-> p, queue |-> q] BY <1>1
    <3> QED BY <2>3, <2>4, <3>1
  <2>5. CASE m # 0
    <3>1. m - 1 \in 0..Len(w) /\ m \in 1..Len(w) BY <2>3, <2>5
    <3>2. m - 1 \notin T BY <3>1, <2>2, <2>3
    <3>3. f[m - 1] \in Good[m - 1] BY <3>1, <3>2 DEF T
    <3>4. f[m] = Resumed(f[m - 1], w[m], applied) BY <1>1, <2>3, <2>5, Zenon
    <3> QED BY <3>1, <3>3, <3>4, <2>3
  <2> QED BY <2>4, <2>5
<1>3. Len(w) \in 0..Len(w) OBVIOUS
<1>4. f[Len(w)] \in Good[Len(w)] BY <1>2, <1>3
<1> HIDE DEF T
<1> QED BY <1>1, <1>4, Zenon

-----------------------------------------------------------------------------
(* Where local commands are. *)

\* There are finitely many places.
LEMMA SpotsFinite ==
  ASSUME NEW p, NEW q \in Seq(Commands), NEW w \in Seq(Ends \cup Waiting), NEW n
  PROVE  IsFiniteSet(Spots(p, q, w, n)) /\ Number(p, q, w, n) \in Nat
<1> DEFINE L(i) == IF i = 0 THEN Len(w) ELSE Len(q[i].after)
           Row(i) == {i} \X (0..L(i))
           rows == {Row(i) : i \in 0..Len(q)}
           f == [i \in 0..Len(q) |-> Row(i)]
<1>0. Len(q) \in Nat /\ DOMAIN q = 1..Len(q) /\ Len(w) \in Nat /\ DOMAIN w = 1..Len(w) OBVIOUS
<1>1. \A i \in 0..Len(q) : L(i) \in Nat
  <2> SUFFICES ASSUME NEW i \in 0..Len(q) PROVE L(i) \in Nat OBVIOUS
  <2>1. CASE i = 0 BY <2>1, <1>0
  <2>2. CASE i # 0
    <3>1. i \in DOMAIN q BY <2>2, <1>0
    <3>2. q[i].after \in Seq(Ends \cup Waiting) BY <3>1, CommandIs
    <3> QED BY <2>2, <3>2
  <2> QED BY <2>1, <2>2
<1>2. \A i \in DOMAIN q : DOMAIN q[i].after = 1..Len(q[i].after)
  <2> SUFFICES ASSUME NEW i \in DOMAIN q PROVE DOMAIN q[i].after = 1..Len(q[i].after) OBVIOUS
  <2>1. q[i].after \in Seq(Ends \cup Waiting) BY CommandIs
  <2> QED BY <2>1
<1> HIDE DEF L
<1>3. IsFiniteSet(0..Len(q)) BY <1>0, FS_Interval
<1>4. f \in Surjection(0..Len(q), rows) BY DEF Surjection
<1>5. IsFiniteSet(rows) BY <1>3, <1>4, FS_Surjection
<1>6. ASSUME NEW i \in 0..Len(q) PROVE IsFiniteSet(Row(i))
  <2>1. L(i) \in Int BY <1>1
  <2>2. IsFiniteSet(0..L(i)) BY <2>1, FS_Interval
  <2>3. IsFiniteSet({i}) BY FS_Singleton
  <2> QED BY <2>2, <2>3, FS_Product
<1>7. \A row \in rows : IsFiniteSet(row) BY <1>6
<1>8. Spots(p, q, w, n) \subseteq UNION rows
  <2> SUFFICES ASSUME NEW x \in Spots(p, q, w, n) PROVE \E i \in 0..Len(q) : x \in Row(i) OBVIOUS
  <2>1. x = <<x[1], x[2]>> /\ x[1] \in Nat /\ x[2] \in Nat /\ Spot(p, q, w, n, x[1], x[2])
    BY DEF Spots
  <2>2. CASE x[1] = 0
    <3>1. x[1] \notin DOMAIN q BY <1>0, <2>2
    <3>2. x[2] \in DOMAIN w BY <2>1, <3>1 DEF Spot, Hand
    <3>3. x[2] \in 0..L(0) BY <3>2, <1>0 DEF L
    <3>4. x \in Row(0) BY <2>1, <2>2, <3>3
    <3> QED BY <3>4, <1>0
  <2>3. CASE x[1] # 0
    <3>1. x[1] \in DOMAIN q /\ (x[2] = 0 \/ x[2] \in DOMAIN q[x[1]].after) BY <2>1, <2>3 DEF Spot
    <3>2. x[1] \in 0..Len(q) BY <3>1, <1>0
    <3>3. L(x[1]) \in Nat /\ L(x[1]) = Len(q[x[1]].after) BY <1>1, <3>2, <2>3 DEF L
    <3>4. x[2] \in 0..L(x[1]) BY <3>1, <3>3, <1>2, <2>1
    <3> QED BY <2>1, <3>2, <3>4
  <2> QED BY <2>2, <2>3
<1> HIDE DEF rows
<1>9. IsFiniteSet(UNION rows) BY <1>5, <1>7, FS_UNION
<1>10. IsFiniteSet(Spots(p, q, w, n)) BY <1>8, <1>9, FS_Subset
<1> QED BY <1>10, FS_CardinalityType DEF Number

\* Sets related one to one have as many elements.
LEMMA Moved ==
  ASSUME NEW S, NEW T, IsFiniteSet(S), NEW f \in [S -> T],
         \A x, y \in S : f[x] = f[y] => x = y, \A z \in T : \E x \in S : f[x] = z
  PROVE  Cardinality(T) = Cardinality(S)
<1>1. f \in Bijection(S, T) BY DEF Bijection, Injection, Surjection, IsInjective
<1>2. ExistsBijection(S, T) BY <1>1 DEF ExistsBijection
<1> QED BY <1>2, FS_Bijection

\* Places are those of a photo; the head's is given up with it.
LEMMA SpotsOfSid ==
  ASSUME NEW p, NEW r, NEW q, NEW w, NEW n, r.sid = p.sid
  PROVE  Spots(r, q, w, n) = Spots(p, q, w, n) /\ Number(r, q, w, n) = Number(p, q, w, n)
<1>1. \A i, k : Spot(r, q, w, n, i, k) <=> Spot(p, q, w, n, i, k) BY DEF Spot
<1>2. Spots(r, q, w, n) = Spots(p, q, w, n) BY <1>1 DEF Spots
<1> QED BY <1>2 DEF Number

LEMMA SpotsPop ==
  ASSUME NEW p, NEW q \in Seq(Commands), q # <<>>
  PROVE  /\ LocalOf(Head(q), p.sid) <=> <<1, 0>> \in Spots(p, q, <<>>, 0)
         /\ Number(p, Tail(q), Head(q).after, 0) = Cardinality(Spots(p, q, <<>>, 0) \ {<<1, 0>>})
         /\ \A i, k \in Nat : Spot(p, Tail(q), Head(q).after, 0, i, k) <=> (Spot(p, q, <<>>, 0, i + 1, k) /\ ~(i = 0 /\ k = 0))
<1> DEFINE r == Tail(q)
           h == Head(q).after
           S == Spots(p, q, <<>>, 0) \ {<<1, 0>>}
           T == Spots(p, r, h, 0)
           Back(x) == <<x[1] - 1, x[2]>>
           f == [x \in S |-> Back(x)]
<1>0. /\ r \in Seq(Commands) /\ q[1] = Head(q) /\ 1 \in DOMAIN q
      /\ \A i \in DOMAIN r : i \in Nat /\ i > 0 /\ i + 1 \in DOMAIN q /\ r[i] = q[i + 1]
      /\ \A i \in DOMAIN q : i \in Nat /\ i > 0 /\ (i = 1 \/ (i - 1 \in DOMAIN r /\ r[i - 1] = q[i]))
  <2>1. \A i \in DOMAIN r : i > 0 OBVIOUS
  <2> QED BY <2>1, PopIs
<1>1. Head(q) \in Commands /\ h \in Seq(Ends \cup Waiting) BY PopIs, CommandIs
<1>2. DOMAIN h = 1..Len(h) /\ Len(h) \in Nat BY <1>1
<1> HIDE DEF r, h
<1>3. ASSUME NEW i \in Nat, NEW k \in Nat
      PROVE  Spot(p, r, h, 0, i, k) <=> (Spot(p, q, <<>>, 0, i + 1, k) /\ ~(i = 0 /\ k = 0))
  <2>1. CASE i = 0
    <3>1. i \notin DOMAIN r BY <2>1, <1>0
    <3>2. Spot(p, r, h, 0, i, k) <=> k \in DOMAIN h /\ LocalOf(h[k], p.sid) BY <2>1, <3>1, <1>2 DEF Spot, Hand
    <3>3. k \in DOMAIN h => k # 0 BY <1>2
    <3>4. Spot(p, q, <<>>, 0, i + 1, k) /\ k # 0 <=> k \in DOMAIN h /\ LocalOf(h[k], p.sid)
      BY <2>1, <1>0, <3>3 DEF Spot, h
    <3> QED BY <2>1, <3>2, <3>4
  <2>2. CASE i # 0
    <3>1. i \in DOMAIN r <=> i + 1 \in DOMAIN q BY <2>2, <1>0
    <3>2. i \in DOMAIN r => r[i] = q[i + 1] BY <1>0
    <3>3. i + 1 # 0 OBVIOUS
    <3> QED BY <2>2, <3>1, <3>2, <3>3 DEF Spot
  <2> QED BY <2>1, <2>2
<1>4. \A x \in S : x[1] \in Nat /\ x[2] \in Nat /\ x[1] > 0 /\ x = <<x[1], x[2]>> /\ Spot(p, q, <<>>, 0, x[1], x[2])
  <2> SUFFICES ASSUME NEW x \in S PROVE x[1] \in Nat /\ x[2] \in Nat /\ x[1] > 0 /\ x = <<x[1], x[2]>> /\ Spot(p, q, <<>>, 0, x[1], x[2])
    OBVIOUS
  <2>1. x[1] \in Nat /\ x[2] \in Nat /\ x = <<x[1], x[2]>> /\ Spot(p, q, <<>>, 0, x[1], x[2]) BY DEF Spots
  <2>2. x[1] \in DOMAIN q BY <2>1 DEF Spot, Hand
  <2> QED BY <2>1, <2>2, <1>0
<1>5. ASSUME NEW x \in S PROVE Back(x) \in T
  <2>1. x[1] - 1 \in Nat /\ x[1] - 1 + 1 = x[1] BY <1>4
  <2>2. ~(x[1] - 1 = 0 /\ x[2] = 0) BY <1>4
  <2>3. Spot(p, r, h, 0, x[1] - 1, x[2]) BY <2>1, <2>2, <1>3, <1>4
  <2>4. <<x[1] - 1, x[2]>> \in Nat \X Nat BY <2>1, <1>4
  <2> QED BY <2>3, <2>4 DEF Spots
<1>6. f \in [S -> T]
  <2> HIDE DEF S, T, Back
  <2> QED BY <1>5
<1>7. \A x, y \in S : f[x] = f[y] => x = y
  <2> SUFFICES ASSUME NEW x \in S, NEW y \in S, f[x] = f[y] PROVE x = y OBVIOUS
  <2>1. x[1] - 1 = y[1] - 1 /\ x[2] = y[2] OBVIOUS
  <2>2. x[1] = y[1] BY <2>1, <1>4
  <2> QED BY <2>1, <2>2, <1>4
<1>8. ASSUME NEW z \in T PROVE \E x \in S : f[x] = z
  <2>1. z = <<z[1], z[2]>> /\ z[1] \in Nat /\ z[2] \in Nat /\ Spot(p, r, h, 0, z[1], z[2]) BY DEF Spots
  <2>2. Spot(p, q, <<>>, 0, z[1] + 1, z[2]) /\ ~(z[1] = 0 /\ z[2] = 0) BY <2>1, <1>3
  <2> DEFINE x == <<z[1] + 1, z[2]>>
  <2>3. x \in Nat \X Nat /\ x[1] = z[1] + 1 /\ x[2] = z[2] BY <2>1
  <2>4. x \in Spots(p, q, <<>>, 0) BY <2>2, <2>3 DEF Spots
  <2>5. x # <<1, 0>> BY <2>1, <2>2
  <2>6. x \in S BY <2>4, <2>5
  <2>7. f[x] = <<x[1] - 1, x[2]>> BY <2>6
  <2> HIDE DEF x, f
  <2>8. x[1] - 1 = z[1] BY <2>1, <2>3
  <2>9. f[x] = z BY <2>7, <2>8, <2>3, <2>1
  <2> QED BY <2>6, <2>9 DEF f
<1>9. IsFiniteSet(S)
  <2>1. <<>> \in Seq(Ends \cup Waiting) OBVIOUS
  <2>2. IsFiniteSet(Spots(p, q, <<>>, 0)) BY <2>1, SpotsFinite
  <2> QED BY <2>2, FS_RemoveElement
<1>10. Cardinality(T) = Cardinality(S)
  <2> HIDE DEF S, T, f
  <2> QED BY <1>6, <1>7, <1>8, <1>9, Moved
<1>11. LocalOf(Head(q), p.sid) <=> <<1, 0>> \in Spots(p, q, <<>>, 0)
  <2>1. Spot(p, q, <<>>, 0, 1, 0) <=> LocalOf(Head(q), p.sid)
    <3>1. 0 \notin DOMAIN h BY <1>2
    <3> QED BY <3>1, <1>0 DEF Spot, h
  <2> QED BY <2>1 DEF Spots
<1> QED BY <1>3, <1>10, <1>11 DEF r, h, Number

\* The hand, empty and full.
LEMMA HandOfNone == Hand(<<>>, 0) = {}
<1>1. DOMAIN <<>> = {} OBVIOUS
<1> QED BY <1>1 DEF Hand

LEMMA HandOfAll ==
  ASSUME NEW w \in Seq(Ends \cup Waiting)
  PROVE  Hand(w, 0) = DOMAIN w /\ Hand(w, Len(w)) = {} /\ DOMAIN w = 1..Len(w) /\ Len(w) \in Nat
<1>1. DOMAIN w = 1..Len(w) /\ Len(w) \in Nat OBVIOUS
<1>2. \A k \in 1..Len(w) : k > 0 /\ ~(k > Len(w)) BY <1>1
<1> QED BY <1>1, <1>2 DEF Hand

LEMMA AfterIs ==
  ASSUME NEW c \in Commands
  PROVE  DOMAIN c.after = 1..Len(c.after) /\ Len(c.after) \in Nat /\ 0 \notin DOMAIN c.after
         /\ \A k \in DOMAIN c.after : c.after[k] \in Ends \cup Waiting
<1>1. c.after \in Seq(Ends \cup Waiting) BY CommandIs
<1> QED BY <1>1

\* Places as pairs.
LEMMA SpotsAre ==
  ASSUME NEW p, NEW q, NEW w, NEW n, NEW z
  PROVE  z \in Spots(p, q, w, n) <=> (z = <<z[1], z[2]>> /\ z[1] \in Nat /\ z[2] \in Nat /\ Spot(p, q, w, n, z[1], z[2]))
<1>1. ASSUME z \in Nat \X Nat PROVE z = <<z[1], z[2]>> /\ z[1] \in Nat /\ z[2] \in Nat BY <1>1
<1>2. ASSUME z = <<z[1], z[2]>>, z[1] \in Nat, z[2] \in Nat PROVE z \in Nat \X Nat
  <2> DEFINE a == z[1]
             b == z[2]
  <2>1. z = <<a, b>> /\ a \in Nat /\ b \in Nat BY <1>2
  <2> HIDE DEF a, b
  <2> QED BY <2>1
<1> QED BY <1>1, <1>2 DEF Spots

\* A save is queued and takes the hand with it.
SavePlaced(p, r, q, w, u, l) ==
  /\ \A i, k \in Nat : Spot(r, u, <<>>, 0, i, k)
       <=> ((i = l /\ Spot(p, q, w, 0, 0, k)) \/ (i # l /\ i # 0 /\ Spot(p, q, w, 0, i, k)))
  /\ \A i, k \in Nat : Later(r, u, <<>>, 0, i, k)
       <=> ((i = l /\ Later(p, q, w, 0, 0, k)) \/ (i # l /\ i # 0 /\ Later(p, q, w, 0, i, k)))
  /\ \A i, k \in Nat : Later(r, u, <<>>, 0, i, k)
       => Item(u, <<>>, i, k) = Item(q, w, IF i = l THEN 0 ELSE i, k)

LEMMA PushSavePlaces ==
  ASSUME NEW p, NEW r, r.sid = p.sid, NEW q \in Seq(Commands), NEW w \in Seq(Ends \cup Waiting),
         NEW c \in Commands, c.type = "global", c.after = w
  PROVE  SavePlaced(p, r, q, w, Append(q, c), Len(q) + 1)
<1> DEFINE u == Append(q, c)
           l == Len(q) + 1
<1>1. /\ l \notin DOMAIN q /\ l \in DOMAIN u /\ u[l] = c /\ l # 0 /\ 0 \notin DOMAIN q /\ 0 \notin DOMAIN u
      /\ \A i \in DOMAIN q : i \in DOMAIN u /\ u[i] = q[i]
      /\ \A i \in DOMAIN u : i \in DOMAIN q \/ i = l
  OBVIOUS
<1>2. Hand(w, 0) = DOMAIN w /\ 0 \notin DOMAIN w BY HandOfAll
<1>3. Hand(<<>>, 0) = {} BY HandOfNone
<1>4. ~ LocalOf(u[l], r.sid) BY <1>1 DEF LocalOf
<1> HIDE DEF u, l
<1>5. \A i, k \in Nat : Spot(r, u, <<>>, 0, i, k)
              <=> ((i = l /\ Spot(p, q, w, 0, 0, k)) \/ (i # l /\ i # 0 /\ Spot(p, q, w, 0, i, k)))
  <2> SUFFICES ASSUME NEW i \in Nat, NEW k \in Nat
               PROVE  Spot(r, u, <<>>, 0, i, k)
              <=> ((i = l /\ Spot(p, q, w, 0, 0, k)) \/ (i # l /\ i # 0 /\ Spot(p, q, w, 0, i, k)))
    OBVIOUS
  <2>1. CASE i = l
    <3>1. Spot(r, u, <<>>, 0, i, k) <=> (k \in DOMAIN w /\ LocalOf(w[k], p.sid)) BY <2>1, <1>1, <1>3, <1>4 DEF Spot
    <3>2. Spot(p, q, w, 0, 0, k) <=> (k \in DOMAIN w /\ LocalOf(w[k], p.sid)) BY <1>1, <1>2 DEF Spot
    <3> QED BY <2>1, <3>1, <3>2, <1>1
  <2>2. CASE i # l BY <2>2, <1>1, <1>3 DEF Spot
  <2> QED BY <2>1, <2>2
<1>6. \A i, k \in Nat : Later(r, u, <<>>, 0, i, k)
              <=> ((i = l /\ Later(p, q, w, 0, 0, k)) \/ (i # l /\ i # 0 /\ Later(p, q, w, 0, i, k)))
  <2> SUFFICES ASSUME NEW i \in Nat, NEW k \in Nat
               PROVE  Later(r, u, <<>>, 0, i, k)
              <=> ((i = l /\ Later(p, q, w, 0, 0, k)) \/ (i # l /\ i # 0 /\ Later(p, q, w, 0, i, k)))
    OBVIOUS
  <2>1. CASE i = l
    <3>1. Later(r, u, <<>>, 0, i, k) <=> (k \in DOMAIN w /\ Goes(w[k], p.sid)) BY <2>1, <1>1, <1>3 DEF Later
    <3>2. Later(p, q, w, 0, 0, k) <=> (k \in DOMAIN w /\ Goes(w[k], p.sid)) BY <1>1, <1>2 DEF Later
    <3> QED BY <2>1, <3>1, <3>2, <1>1
  <2>2. CASE i # l BY <2>2, <1>1, <1>3 DEF Later
  <2> QED BY <2>1, <2>2
<1>7. \A i, k \in Nat : Later(r, u, <<>>, 0, i, k)
              => Item(u, <<>>, i, k) = Item(q, w, IF i = l THEN 0 ELSE i, k)
  BY <1>1, <1>3 DEF Later, Item
<1> QED BY <1>5, <1>6, <1>7 DEF u, l, SavePlaced

LEMMA PushSaveCount ==
  ASSUME NEW p, NEW r, r.sid = p.sid, NEW q \in Seq(Commands), NEW w \in Seq(Ends \cup Waiting),
         NEW c \in Commands, c.type = "global", c.after = w
  PROVE  Number(r, Append(q, c), <<>>, 0) = Number(p, q, w, 0)
<1>0. SavePlaced(p, r, q, w, Append(q, c), Len(q) + 1) BY PushSavePlaces
<1> DEFINE u == Append(q, c)
           l == Len(q) + 1
           S == Spots(p, q, w, 0)
           T == Spots(r, u, <<>>, 0)
           To(x) == IF x[1] = 0 THEN <<l, x[2]>> ELSE x
           f == [x \in S |-> To(x)]
<1>1. \A i, k \in Nat : Spot(r, u, <<>>, 0, i, k)
              <=> ((i = l /\ Spot(p, q, w, 0, 0, k)) \/ (i # l /\ i # 0 /\ Spot(p, q, w, 0, i, k)))
  BY <1>0 DEF SavePlaced
<1>2. l \in Nat /\ l # 0 /\ l \notin DOMAIN q OBVIOUS
<1>3. \A k \in Nat : ~ Spot(p, q, w, 0, l, k) BY <1>2 DEF Spot
<1>4. IsFiniteSet(S) BY SpotsFinite
<1> HIDE DEF u, l
<1>5. ASSUME NEW x \in S
      PROVE  /\ x = <<x[1], x[2]>> /\ x[1] \in Nat /\ x[2] \in Nat /\ x[1] # l
             /\ To(x) = <<To(x)[1], To(x)[2]>> /\ To(x)[2] = x[2] /\ To(x)[1] = (IF x[1] = 0 THEN l ELSE x[1])
             /\ To(x) \in T
  <2>1. x = <<x[1], x[2]>> /\ x[1] \in Nat /\ x[2] \in Nat /\ Spot(p, q, w, 0, x[1], x[2]) BY SpotsAre
  <2>2. x[1] # l BY <2>1, <1>3
  <2>3. CASE x[1] = 0
    <3>1. Spot(r, u, <<>>, 0, l, x[2]) BY <2>1, <2>3, <1>1, <1>2
    <3>2. <<l, x[2]>> \in T BY <3>1, <2>1, <1>2 DEF Spots
    <3> QED BY <2>1, <2>2, <2>3, <3>2
  <2>4. CASE x[1] # 0
    <3>1. Spot(r, u, <<>>, 0, x[1], x[2]) BY <2>1, <2>2, <2>4, <1>1
    <3>2. x \in T BY <3>1, <2>1, SpotsAre
    <3> QED BY <2>1, <2>2, <2>4, <3>2
  <2> QED BY <2>3, <2>4
<1>6. f \in [S -> T]
  <2> HIDE DEF S, T, To
  <2> QED BY <1>5
<1>7. \A x \in S : f[x] = To(x) OBVIOUS
<1> HIDE DEF f, To
<1>8. \A x, y \in S : f[x] = f[y] => x = y
  <2> SUFFICES ASSUME NEW x \in S, NEW y \in S, f[x] = f[y] PROVE x = y OBVIOUS
  <2>1. To(x) = To(y) BY <1>7
  <2>2. x[2] = y[2] /\ x[1] = y[1] BY <2>1, <1>5
  <2> QED BY <2>2, <1>5
<1>9. \A z \in T : \E x \in S : f[x] = z
  <2> SUFFICES ASSUME NEW z \in T PROVE \E x \in S : f[x] = z OBVIOUS
  <2>1. z = <<z[1], z[2]>> /\ z[1] \in Nat /\ z[2] \in Nat /\ Spot(r, u, <<>>, 0, z[1], z[2]) BY SpotsAre
  <2>2. CASE z[1] = l
    <3>1. Spot(p, q, w, 0, 0, z[2]) BY <2>1, <2>2, <1>1
    <3>2. <<0, z[2]>> \in S BY <3>1, <2>1 DEF Spots
    <3>3. To(<<0, z[2]>>) = <<l, z[2]>> BY DEF To
    <3> QED BY <3>2, <3>3, <2>1, <2>2, <1>7
  <2>3. CASE z[1] # l
    <3>1. z[1] # 0 /\ Spot(p, q, w, 0, z[1], z[2]) BY <2>1, <2>3, <1>1
    <3>2. z \in S BY <3>1, <2>1, SpotsAre
    <3>3. To(z) = z BY <3>1 DEF To
    <3> QED BY <3>2, <3>3, <1>7
  <2> QED BY <2>2, <2>3
<1> HIDE DEF S, T
<1>10. Cardinality(T) = Cardinality(S) BY <1>4, <1>6, <1>8, <1>9, Moved
<1> QED BY <1>10 DEF S, T, u, Number

\* The hand is attached to a save.
Joined(q, i, w) == [q EXCEPT ![i].after = @ \o w]

Attached(p, q, w, i, u, a) ==
  /\ a \in Nat /\ i \in Nat /\ i # 0
  /\ \A j, k \in Nat : Spot(p, u, <<>>, 0, j, k)
              <=> ((j # 0 /\ Spot(p, q, w, 0, j, k)) \/ (j = i /\ k > a /\ Spot(p, q, w, 0, 0, k - a)))
  /\ \A j, k \in Nat : Later(p, u, <<>>, 0, j, k)
              <=> ((j # 0 /\ Later(p, q, w, 0, j, k)) \/ (j = i /\ k > a /\ Later(p, q, w, 0, 0, k - a)))
  /\ \A j, k \in Nat : Later(p, u, <<>>, 0, j, k)
              => Item(u, <<>>, j, k) = IF j = i /\ k > a THEN Item(q, w, 0, k - a) ELSE Item(q, w, j, k)
  /\ \A j, k \in Nat : j # 0 /\ Later(p, q, w, 0, j, k) => ~(j = i /\ k > a)
  /\ \A k \in Nat : Spot(p, q, w, 0, i, k) => k <= a

LEMMA AttachPlaces ==
  ASSUME NEW p, NEW q \in Seq(Commands), NEW w \in Seq(Ends \cup Waiting),
         NEW i \in DOMAIN q, q[i].type = "global", NEW u, u = Joined(q, i, w),
         NEW a, a = Len(q[i].after)
  PROVE  Attached(p, q, w, i, u, a)
<1> DEFINE b == q[i].after
<1>1. /\ DOMAIN u = DOMAIN q /\ \A j \in DOMAIN q : Alike(u[j], q[j])
      /\ \A j \in DOMAIN q : j # i => u[j] = q[j]
      /\ u[i].after = b \o w
  <2>1. LET r == [q EXCEPT ![i].after = @ \o w]
         IN /\ r \in Seq(Commands) /\ DOMAIN r = DOMAIN q /\ Len(r) = Len(q)
            /\ \A j \in DOMAIN q : Alike(r[j], q[j])
            /\ \A j \in DOMAIN q : j # i => r[j] = q[j]
            /\ r[i].after = q[i].after \o w BY AttachIs
  <2> QED BY <2>1 DEF Joined
<1>2. b \in Seq(Ends \cup Waiting) /\ DOMAIN b = 1..a /\ a \in Nat
  <2>1. q[i] \in Commands OBVIOUS
  <2> QED BY <2>1, CommandIs, AfterIs
<1>3. i \in Nat /\ i # 0 /\ 0 \notin DOMAIN q OBVIOUS
<1>4. Hand(w, 0) = DOMAIN w /\ DOMAIN w = 1..Len(w) /\ Len(w) \in Nat BY HandOfAll
<1>5. Hand(<<>>, 0) = {} BY HandOfNone
<1>6. ASSUME NEW k \in Nat
      PROVE  /\ k \in DOMAIN u[i].after <=> (k \in DOMAIN b \/ (k > a /\ k - a \in DOMAIN w))
             /\ k \in DOMAIN b => u[i].after[k] = b[k] /\ ~(k > a)
             /\ k > a /\ k - a \in DOMAIN w => u[i].after[k] = w[k - a] /\ k \notin DOMAIN b /\ k # 0
  <2>1. k \in DOMAIN (b \o w) <=> (k \in DOMAIN b \/ (k > a /\ k - a \in DOMAIN w)) BY <1>2
  <2>2. k \in DOMAIN b => (b \o w)[k] = b[k] /\ ~(k > a) BY <1>2
  <2>3. k > a /\ k - a \in DOMAIN w => (b \o w)[k] = w[k - a] /\ k \notin DOMAIN b /\ k # 0 BY <1>2, <1>4
  <2> QED BY <2>1, <2>2, <2>3, <1>1
<1> HIDE DEF b
<1>7. ASSUME NEW j \in Nat, NEW k \in Nat
      PROVE  Spot(p, u, <<>>, 0, j, k)
              <=> ((j # 0 /\ Spot(p, q, w, 0, j, k)) \/ (j = i /\ k > a /\ Spot(p, q, w, 0, 0, k - a)))
  <2>1. CASE j = i
    <3>1. Spot(p, u, <<>>, 0, i, k)
          <=> ((k = 0 /\ LocalOf(u[i], p.sid)) \/ (k \in DOMAIN u[i].after /\ LocalOf(u[i].after[k], p.sid)))
      BY <1>1, <1>3, <1>5 DEF Spot
    <3>2. LocalOf(u[i], p.sid) <=> LocalOf(q[i], p.sid) BY <1>1 DEF Alike, LocalOf
    <3>3. Spot(p, q, w, 0, i, k)
          <=> ((k = 0 /\ LocalOf(q[i], p.sid)) \/ (k \in DOMAIN b /\ LocalOf(b[k], p.sid)))
      BY <1>3 DEF Spot, b
    <3>4. k > a => (Spot(p, q, w, 0, 0, k - a) <=> (k - a \in DOMAIN w /\ LocalOf(w[k - a], p.sid)))
      BY <1>3, <1>4 DEF Spot
    <3>5. (k \in DOMAIN u[i].after /\ LocalOf(u[i].after[k], p.sid))
          <=> ((k \in DOMAIN b /\ LocalOf(b[k], p.sid)) \/ (k > a /\ k - a \in DOMAIN w /\ LocalOf(w[k - a], p.sid)))
      <4>1. CASE k \in DOMAIN b BY <4>1, <1>6
      <4>2. CASE k > a /\ k - a \in DOMAIN w BY <4>2, <1>6
      <4>3. CASE ~(k \in DOMAIN b) /\ ~(k > a /\ k - a \in DOMAIN w) BY <4>3, <1>6
      <4> QED BY <4>1, <4>2, <4>3
    <3> QED BY <2>1, <3>1, <3>2, <3>3, <3>4, <3>5, <1>3
  <2>2. CASE j # i BY <2>2, <1>1, <1>3, <1>5 DEF Spot
  <2> QED BY <2>1, <2>2
<1>8. ASSUME NEW j \in Nat, NEW k \in Nat
      PROVE  Later(p, u, <<>>, 0, j, k)
              <=> ((j # 0 /\ Later(p, q, w, 0, j, k)) \/ (j = i /\ k > a /\ Later(p, q, w, 0, 0, k - a)))
  <2>1. CASE j = i
    <3>1. Later(p, u, <<>>, 0, i, k) <=> (k \in DOMAIN u[i].after /\ Goes(u[i].after[k], p.sid))
      BY <1>1, <1>3, <1>5 DEF Later
    <3>3. Later(p, q, w, 0, i, k) <=> (k \in DOMAIN b /\ Goes(b[k], p.sid))
      BY <1>3 DEF Later, b
    <3>4. k > a => (Later(p, q, w, 0, 0, k - a) <=> (k - a \in DOMAIN w /\ Goes(w[k - a], p.sid)))
      BY <1>3, <1>4 DEF Later
    <3>5. (k \in DOMAIN u[i].after /\ Goes(u[i].after[k], p.sid))
          <=> ((k \in DOMAIN b /\ Goes(b[k], p.sid)) \/ (k > a /\ k - a \in DOMAIN w /\ Goes(w[k - a], p.sid)))
      <4>1. CASE k \in DOMAIN b BY <4>1, <1>6
      <4>2. CASE k > a /\ k - a \in DOMAIN w BY <4>2, <1>6
      <4>3. CASE ~(k \in DOMAIN b) /\ ~(k > a /\ k - a \in DOMAIN w) BY <4>3, <1>6
      <4> QED BY <4>1, <4>2, <4>3
    <3> QED BY <2>1, <3>1, <3>3, <3>4, <3>5, <1>3
  <2>2. CASE j # i BY <2>2, <1>1, <1>3, <1>5 DEF Later
  <2> QED BY <2>1, <2>2
<1>9. ASSUME NEW j \in Nat, NEW k \in Nat, Later(p, u, <<>>, 0, j, k)
      PROVE  Item(u, <<>>, j, k) = IF j = i /\ k > a THEN Item(q, w, 0, k - a) ELSE Item(q, w, j, k)
  <2>1. j \in DOMAIN u /\ k \in DOMAIN u[j].after BY <1>9, <1>5 DEF Later
  <2>2. j # 0 /\ k \in DOMAIN u[j].after BY <2>1, <1>1, <1>3
  <2>3. CASE j = i
    <3>1. k \in DOMAIN b \/ (k > a /\ k - a \in DOMAIN w) BY <2>1, <2>3, <1>6
    <3>2. CASE k \in DOMAIN b
      <4>1. ~(k > a) /\ u[i].after[k] = b[k] BY <3>2, <1>6
      <4> QED BY <2>3, <4>1, <1>3 DEF Item, b
    <3>3. CASE k > a /\ k - a \in DOMAIN w
      <4>1. u[i].after[k] = w[k - a] BY <3>3, <1>6
      <4> QED BY <2>3, <4>1, <3>3, <1>3 DEF Item
    <3> QED BY <3>1, <3>2, <3>3
  <2>4. CASE j # i BY <2>1, <2>2, <2>4, <1>1 DEF Item
  <2> QED BY <2>3, <2>4
<1>10. ASSUME NEW k \in Nat PROVE /\ Later(p, q, w, 0, i, k) => ~(k > a)
                                  /\ Spot(p, q, w, 0, i, k) => k <= a
  <2>1. k \in DOMAIN b \/ k = 0 => ~(k > a) /\ k <= a BY <1>2
  <2>2. Later(p, q, w, 0, i, k) => k \in DOMAIN b BY <1>3 DEF Later, b
  <2>3. Spot(p, q, w, 0, i, k) => k \in DOMAIN b \/ k = 0 BY <1>3 DEF Spot, b
  <2> QED BY <2>1, <2>2, <2>3
<1> QED BY <1>2, <1>3, <1>7, <1>8, <1>9, <1>10 DEF Attached

LEMMA AttachCount ==
  ASSUME NEW p, NEW q \in Seq(Commands), NEW w \in Seq(Ends \cup Waiting),
         NEW i \in DOMAIN q, q[i].type = "global", NEW u, u = Joined(q, i, w),
         NEW a, a = Len(q[i].after)
  PROVE  Number(p, u, <<>>, 0) = Number(p, q, w, 0)
<1>0. Attached(p, q, w, i, u, a) BY AttachPlaces
<1>a. a \in Nat /\ i \in Nat /\ i # 0 BY <1>0 DEF Attached
<1>b. \A j, k \in Nat : Spot(p, u, <<>>, 0, j, k)
              <=> ((j # 0 /\ Spot(p, q, w, 0, j, k)) \/ (j = i /\ k > a /\ Spot(p, q, w, 0, 0, k - a)))
  BY <1>0 DEF Attached
<1>c. \A k \in Nat : Spot(p, q, w, 0, i, k) => k <= a BY <1>0 DEF Attached
<1>1. /\ a \in Nat /\ i \in Nat /\ i # 0
      /\ \A j, k \in Nat : Spot(p, u, <<>>, 0, j, k)
              <=> ((j # 0 /\ Spot(p, q, w, 0, j, k)) \/ (j = i /\ k > a /\ Spot(p, q, w, 0, 0, k - a)))
      /\ \A k \in Nat : Spot(p, q, w, 0, i, k) => k <= a
  BY <1>a, <1>b, <1>c
<1> DEFINE S == Spots(p, q, w, 0)
           T == Spots(p, u, <<>>, 0)
           To(x) == IF x[1] = 0 THEN <<i, a + x[2]>> ELSE x
           f == [x \in S |-> To(x)]
<1>4. IsFiniteSet(S) BY SpotsFinite
<1>2. \A k \in Nat : Spot(p, q, w, 0, 0, k) => k > 0
  <2>1. 0 \notin DOMAIN q /\ DOMAIN w = 1..Len(w) OBVIOUS
  <2> QED BY <2>1 DEF Spot, Hand
<1>5. ASSUME NEW x \in S
      PROVE  /\ x = <<x[1], x[2]>> /\ x[1] \in Nat /\ x[2] \in Nat
             /\ To(x) = <<To(x)[1], To(x)[2]>>
             /\ x[1] = 0 => To(x)[1] = i /\ To(x)[2] = a + x[2] /\ To(x)[2] > a
             /\ x[1] # 0 => To(x) = x /\ (x[1] = i => To(x)[2] <= a)
             /\ To(x) \in T
  <2>1. x = <<x[1], x[2]>> /\ x[1] \in Nat /\ x[2] \in Nat /\ Spot(p, q, w, 0, x[1], x[2]) BY SpotsAre
  <2>3. CASE x[1] = 0
    <3>1. x[2] > 0 BY <2>1, <2>3, <1>2
    <3> DEFINE y == a + x[2]
    <3>2. y \in Nat /\ y > a /\ y - a = x[2] BY <3>1, <2>1, <1>1
    <3>30. Spot(p, q, w, 0, 0, y - a) BY <2>1, <2>3, <3>2
    <3> HIDE DEF y
    <3>3. Spot(p, u, <<>>, 0, i, y) BY <3>2, <3>30, <1>1
    <3> USE DEF y
    <3>4. <<i, a + x[2]>> \in T BY <3>2, <3>3, <1>1 DEF Spots
    <3> QED BY <2>1, <2>3, <3>2, <3>4
  <2>4. CASE x[1] # 0
    <3>1. Spot(p, u, <<>>, 0, x[1], x[2]) BY <2>1, <2>4, <1>1
    <3>2. x \in T BY <3>1, <2>1, SpotsAre
    <3>3. x[1] = i => x[2] <= a BY <2>1, <1>1
    <3> QED BY <2>1, <2>4, <3>2, <3>3
  <2> QED BY <2>3, <2>4
<1>6. f \in [S -> T]
  <2> HIDE DEF S, T, To
  <2> QED BY <1>5
<1>7. \A x \in S : f[x] = To(x) OBVIOUS
<1> HIDE DEF f, To
<1>8. \A x, y \in S : f[x] = f[y] => x = y
  <2> SUFFICES ASSUME NEW x \in S, NEW y \in S, f[x] = f[y] PROVE x = y OBVIOUS
  <2>1. To(x) = To(y) BY <1>7
  <2>2. CASE x[1] = 0 /\ y[1] = 0
    <3>1. x[2] = y[2] BY <2>1, <2>2, <1>5, <1>1
    <3> QED BY <3>1, <2>2, <1>5
  <2>3. CASE x[1] # 0 /\ y[1] # 0 BY <2>1, <2>3, <1>5
  <2>4. CASE x[1] = 0 /\ y[1] # 0
    <3>1. To(x)[1] = i /\ To(x)[2] > a /\ (y[1] = i => To(y)[2] <= a) /\ To(y) = y BY <2>4, <1>5
    <3>2. To(x)[2] \in Nat BY <2>1, <3>1, <1>5
    <3> QED BY <3>1, <3>2, <2>1, <1>1
  <2>5. CASE x[1] # 0 /\ y[1] = 0
    <3>1. To(y)[1] = i /\ To(y)[2] > a /\ (x[1] = i => To(x)[2] <= a) /\ To(x) = x BY <2>5, <1>5
    <3>2. To(y)[2] \in Nat BY <2>1, <3>1, <1>5
    <3> QED BY <3>1, <3>2, <2>1, <1>1
  <2> QED BY <2>2, <2>3, <2>4, <2>5
<1>9. \A z \in T : \E x \in S : f[x] = z
  <2> SUFFICES ASSUME NEW z \in T PROVE \E x \in S : f[x] = z OBVIOUS
  <2>1. z = <<z[1], z[2]>> /\ z[1] \in Nat /\ z[2] \in Nat /\ Spot(p, u, <<>>, 0, z[1], z[2]) BY SpotsAre
  <2>2. CASE z[1] = i /\ z[2] > a /\ Spot(p, q, w, 0, 0, z[2] - a)
    <3>0. \A b \in Nat : b > a => b - a \in Nat /\ a + (b - a) = b BY <1>1
    <3>1. z[2] - a \in Nat /\ a + (z[2] - a) = z[2] BY <2>1, <2>2, <3>0
    <3> DEFINE y == z[2] - a
    <3>2. y \in Nat /\ a + y = z[2] /\ Spot(p, q, w, 0, 0, y) BY <3>1, <2>2
    <3> HIDE DEF y
    <3>3. <<0, y>> \in S BY <3>2 DEF Spots
    <3>4. To(<<0, y>>) = <<i, a + y>> BY DEF To
    <3> QED BY <3>2, <3>3, <3>4, <2>1, <2>2, <1>7
  <2>3. CASE z[1] # 0 /\ Spot(p, q, w, 0, z[1], z[2])
    <3>2. z \in S BY <2>3, <2>1, SpotsAre
    <3>3. To(z) = z BY <2>3 DEF To
    <3> QED BY <3>2, <3>3, <1>7
  <2> QED BY <2>1, <2>2, <2>3, <1>1
<1> HIDE DEF S, T
<1>10. Cardinality(T) = Cardinality(S) BY <1>4, <1>6, <1>8, <1>9, Moved
<1> QED BY <1>10 DEF S, T, Number

\* A command goes from the hand to the queue.
AppendPlaced(p, q, w, n, u, l) ==
  /\ \A i, k \in Nat : Spot(p, u, w, n, i, k)
       <=> ((i = l /\ k = 0 /\ Spot(p, q, w, n - 1, 0, n))
            \/ (i # l /\ ~(i = 0 /\ k = n) /\ Spot(p, q, w, n - 1, i, k)))
  /\ \A i, k \in Nat : Later(p, u, w, n, i, k)
       <=> (i # l /\ ~(i = 0 /\ k = n) /\ Later(p, q, w, n - 1, i, k))
  /\ \A i, k \in Nat : Later(p, u, w, n, i, k) => Item(u, w, i, k) = Item(q, w, i, k)
  /\ Spot(p, q, w, n - 1, 0, n) <=> LocalOf(w[n], p.sid)

LEMMA AppendPlaces ==
  ASSUME NEW p, NEW q \in Seq(Commands), NEW w \in Seq(Ends \cup Waiting), NEW n \in 1..Len(w),
         w[n] \in Waiting
  PROVE  AppendPlaced(p, q, w, n, Append(q, w[n]), Len(q) + 1)
<1> DEFINE u == Append(q, w[n])
           l == Len(q) + 1
           c == w[n]
<1>0. c \in Commands /\ c.after = <<>>
  <2>1. c \in Ends \cup Waiting /\ c.type # "end" BY DEF Waiting
  <2> QED BY <2>1, WaitingIs
<1>1. /\ l \notin DOMAIN q /\ l \in DOMAIN u /\ u[l] = c /\ l # 0 /\ 0 \notin DOMAIN q /\ 0 \notin DOMAIN u
      /\ \A i \in DOMAIN q : i \in DOMAIN u /\ u[i] = q[i]
      /\ \A i \in DOMAIN u : i \in DOMAIN q \/ i = l
  BY <1>0
<1>2. ASSUME NEW k \in Nat PROVE /\ k \in Hand(w, n) <=> (k \in Hand(w, n - 1) /\ k # n)
                                 /\ n \in Hand(w, n - 1)
  BY DEF Hand
<1>3. DOMAIN u[l].after = {} BY <1>0, <1>1
<1> HIDE DEF u, l
<1>4. Spot(p, q, w, n - 1, 0, n) <=> LocalOf(c, p.sid) BY <1>1, <1>2 DEF Spot
<1>5. ASSUME NEW i \in Nat, NEW k \in Nat
      PROVE  Spot(p, u, w, n, i, k)
              <=> ((i = l /\ k = 0 /\ Spot(p, q, w, n - 1, 0, n))
                   \/ (i # l /\ ~(i = 0 /\ k = n) /\ Spot(p, q, w, n - 1, i, k)))
  <2>1. CASE i = l BY <2>1, <1>1, <1>3, <1>4 DEF Spot
  <2>2. CASE i = 0 BY <2>2, <1>1, <1>2 DEF Spot
  <2>3. CASE i # l /\ i # 0 BY <2>3, <1>1 DEF Spot
  <2> QED BY <2>1, <2>2, <2>3
<1>6. ASSUME NEW i \in Nat, NEW k \in Nat
      PROVE  Later(p, u, w, n, i, k) <=> (i # l /\ ~(i = 0 /\ k = n) /\ Later(p, q, w, n - 1, i, k))
  <2>1. CASE i = l BY <2>1, <1>1, <1>3 DEF Later
  <2>2. CASE i = 0 BY <2>2, <1>1, <1>2 DEF Later
  <2>3. CASE i # l /\ i # 0 BY <2>3, <1>1 DEF Later
  <2> QED BY <2>1, <2>2, <2>3
<1>7. ASSUME NEW i \in Nat, NEW k \in Nat, Later(p, u, w, n, i, k)
      PROVE  Item(u, w, i, k) = Item(q, w, i, k)
  <2>1. i # l BY <1>6, <1>7
  <2>2. i # 0 => i \in DOMAIN q BY <2>1, <1>7, <1>1 DEF Later
  <2> QED BY <2>2, <1>1 DEF Item
<1> QED BY <1>4, <1>5, <1>6, <1>7 DEF u, l, AppendPlaced

LEMMA AppendCount ==
  ASSUME NEW p, NEW q \in Seq(Commands), NEW w \in Seq(Ends \cup Waiting), NEW n \in 1..Len(w),
         w[n] \in Waiting
  PROVE  Number(p, Append(q, w[n]), w, n) = Number(p, q, w, n - 1)
<1>1. AppendPlaced(p, q, w, n, Append(q, w[n]), Len(q) + 1) BY AppendPlaces
<1> DEFINE u == Append(q, w[n])
           l == Len(q) + 1
           S == Spots(p, q, w, n - 1)
           T == Spots(p, u, w, n)
           To(x) == IF x = <<0, n>> THEN <<l, 0>> ELSE x
           f == [x \in S |-> To(x)]
<1>2. l \in Nat /\ l # 0 /\ l \notin DOMAIN q /\ n \in Nat OBVIOUS
<1>3. \A k \in Nat : ~ Spot(p, q, w, n - 1, l, k) BY <1>2 DEF Spot
<1>4. IsFiniteSet(S) BY SpotsFinite
<1>40. \A i, k \in Nat : Spot(p, u, w, n, i, k)
              <=> ((i = l /\ k = 0 /\ Spot(p, q, w, n - 1, 0, n))
                   \/ (i # l /\ ~(i = 0 /\ k = n) /\ Spot(p, q, w, n - 1, i, k)))
  BY <1>1 DEF AppendPlaced
<1> HIDE DEF u, l
<1>5. ASSUME NEW x \in S
      PROVE  /\ x = <<x[1], x[2]>> /\ x[1] \in Nat /\ x[2] \in Nat /\ x[1] # l
             /\ To(x) \in T /\ To(x) = <<To(x)[1], To(x)[2]>>
             /\ x = <<0, n>> => To(x)[1] = l
             /\ x # <<0, n>> => To(x) = x
  <2>1. x = <<x[1], x[2]>> /\ x[1] \in Nat /\ x[2] \in Nat /\ Spot(p, q, w, n - 1, x[1], x[2]) BY SpotsAre
  <2>2. x[1] # l BY <2>1, <1>3
  <2>3. CASE x = <<0, n>>
    <3>0. x[1] = 0 /\ x[2] = n BY <2>3
    <3>1. Spot(p, q, w, n - 1, 0, n) BY <2>1, <3>0
    <3>2. Spot(p, u, w, n, l, 0) BY <3>1, <1>40, <1>2
    <3>3. <<l, 0>> \in T BY <3>2, <1>2 DEF Spots
    <3> QED BY <2>1, <2>2, <2>3, <3>3
  <2>4. CASE x # <<0, n>>
    <3>0. ~(x[1] = 0 /\ x[2] = n) BY <2>1, <2>4
    <3>1. Spot(p, u, w, n, x[1], x[2]) BY <2>1, <2>2, <3>0, <1>40
    <3>2. x \in T BY <3>1, <2>1, SpotsAre
    <3> QED BY <2>1, <2>2, <2>4, <3>2
  <2> QED BY <2>3, <2>4
<1>6. f \in [S -> T]
  <2> HIDE DEF S, T, To
  <2> QED BY <1>5
<1>7. \A x \in S : f[x] = To(x) OBVIOUS
<1>70. To(<<0, n>>) = <<l, 0>> /\ \A x : x # <<0, n>> => To(x) = x OBVIOUS
<1> HIDE DEF f, To
<1>8. \A x, y \in S : f[x] = f[y] => x = y
  <2> SUFFICES ASSUME NEW x \in S, NEW y \in S, f[x] = f[y] PROVE x = y OBVIOUS
  <2>1. To(x) = To(y) BY <1>7
  <2> QED BY <2>1, <1>5
<1>9. \A z \in T : \E x \in S : f[x] = z
  <2> SUFFICES ASSUME NEW z \in T PROVE \E x \in S : f[x] = z OBVIOUS
  <2>1. z = <<z[1], z[2]>> /\ z[1] \in Nat /\ z[2] \in Nat /\ Spot(p, u, w, n, z[1], z[2]) BY SpotsAre
  <2>2. CASE z[1] = l /\ z[2] = 0 /\ Spot(p, q, w, n - 1, 0, n)
    <3>1. <<0, n>> \in S BY <2>2, <1>2 DEF Spots
    <3> QED BY <3>1, <2>1, <2>2, <1>7, <1>70
  <2>3. CASE z[1] # l /\ ~(z[1] = 0 /\ z[2] = n) /\ Spot(p, q, w, n - 1, z[1], z[2])
    <3>1. z \in S BY <2>1, <2>3, SpotsAre
    <3>2. z # <<0, n>> BY <2>3
    <3> QED BY <3>1, <3>2, <1>7, <1>70
  <2> QED BY <2>1, <2>2, <2>3, <1>40
<1> HIDE DEF S, T
<1>10. Cardinality(T) = Cardinality(S) BY <1>4, <1>6, <1>8, <1>9, Moved
<1> QED BY <1>10 DEF S, T, u, Number

\* A command of the hand is dropped.
DropPlaced(p, r, q, w, n) ==
  /\ \A i, k \in Nat : Spot(r, q, w, n, i, k) <=> (~(i = 0 /\ k = n) /\ Spot(p, q, w, n - 1, i, k))
  /\ \A i, k \in Nat : Later(r, q, w, n, i, k) <=> (~(i = 0 /\ k = n) /\ Later(p, q, w, n - 1, i, k))
  /\ Spot(p, q, w, n - 1, 0, n) <=> LocalOf(w[n], p.sid)
  /\ Later(p, q, w, n - 1, 0, n) <=> Goes(w[n], p.sid)

LEMMA DropPlaces ==
  ASSUME NEW p, NEW r, r.sid = p.sid, NEW q \in Seq(Commands), NEW w \in Seq(Ends \cup Waiting), NEW n \in 1..Len(w)
  PROVE  DropPlaced(p, r, q, w, n)
<1>1. 0 \notin DOMAIN q OBVIOUS
<1>2. ASSUME NEW k \in Nat PROVE /\ k \in Hand(w, n) <=> (k \in Hand(w, n - 1) /\ k # n)
                                 /\ n \in Hand(w, n - 1)
  BY DEF Hand
<1>3. ASSUME NEW i \in Nat, NEW k \in Nat
      PROVE  Spot(r, q, w, n, i, k) <=> (~(i = 0 /\ k = n) /\ Spot(p, q, w, n - 1, i, k))
  <2>1. CASE i = 0 BY <2>1, <1>1, <1>2 DEF Spot
  <2>2. CASE i # 0 BY <2>2, <1>1 DEF Spot
  <2> QED BY <2>1, <2>2
<1>4. ASSUME NEW i \in Nat, NEW k \in Nat
      PROVE  Later(r, q, w, n, i, k) <=> (~(i = 0 /\ k = n) /\ Later(p, q, w, n - 1, i, k))
  <2>1. CASE i = 0 BY <2>1, <1>1, <1>2 DEF Later
  <2>2. CASE i # 0 BY <2>2, <1>1 DEF Later
  <2> QED BY <2>1, <2>2
<1>5. Spot(p, q, w, n - 1, 0, n) <=> LocalOf(w[n], p.sid) BY <1>1, <1>2 DEF Spot
<1>6. Later(p, q, w, n - 1, 0, n) <=> Goes(w[n], p.sid) BY <1>1, <1>2 DEF Later
<1> QED BY <1>3, <1>4, <1>5, <1>6 DEF DropPlaced

LEMMA DropCount ==
  ASSUME NEW p, NEW r, r.sid = p.sid, NEW q \in Seq(Commands), NEW w \in Seq(Ends \cup Waiting), NEW n \in 1..Len(w)
  PROVE  /\ Number(r, q, w, n) \in Nat /\ Number(p, q, w, n - 1) \in Nat
         /\ LocalOf(w[n], p.sid) => Number(p, q, w, n - 1) = Number(r, q, w, n) + 1
         /\ ~LocalOf(w[n], p.sid) => Number(p, q, w, n - 1) = Number(r, q, w, n)
<1>0. n \in Nat OBVIOUS
<1> DEFINE S == Spots(p, q, w, n - 1)
           T == Spots(r, q, w, n)
<1>01. DropPlaced(p, r, q, w, n) BY DropPlaces
<1>1. \A i, k \in Nat : Spot(r, q, w, n, i, k) <=> (~(i = 0 /\ k = n) /\ Spot(p, q, w, n - 1, i, k))
  BY <1>01 DEF DropPlaced
<1>2. Spot(p, q, w, n - 1, 0, n) <=> LocalOf(w[n], p.sid) BY <1>01 DEF DropPlaced
<1>3. IsFiniteSet(S) /\ Number(p, q, w, n - 1) \in Nat BY SpotsFinite
<1>4. IsFiniteSet(T) /\ Number(r, q, w, n) \in Nat BY SpotsFinite
<1>5. \A x : x \in T <=> (x \in S /\ x # <<0, n>>)
  <2> SUFFICES ASSUME NEW x PROVE x \in T <=> (x \in S /\ x # <<0, n>>) OBVIOUS
  <2>1. x \in T <=> (x = <<x[1], x[2]>> /\ x[1] \in Nat /\ x[2] \in Nat /\ Spot(r, q, w, n, x[1], x[2])) BY SpotsAre
  <2>2. x \in S <=> (x = <<x[1], x[2]>> /\ x[1] \in Nat /\ x[2] \in Nat /\ Spot(p, q, w, n - 1, x[1], x[2])) BY SpotsAre
  <2>3. x = <<x[1], x[2]>> => (x # <<0, n>> <=> ~(x[1] = 0 /\ x[2] = n))
    <3> DEFINE a == x[1]
               b == x[2]
    <3>1. <<a, b>> # <<0, n>> <=> ~(a = 0 /\ b = n) OBVIOUS
    <3> HIDE DEF a, b
    <3> SUFFICES ASSUME x = <<a, b>> PROVE x # <<0, n>> <=> ~(a = 0 /\ b = n) BY DEF a, b
    <3> QED BY <3>1
  <2> QED BY <2>1, <2>2, <2>3, <1>1
<1>6. T = S \ {<<0, n>>} BY <1>5
<1>7. <<0, n>> \in S <=> LocalOf(w[n], p.sid) BY <1>0, <1>2 DEF Spots
<1> HIDE DEF S, T
<1>8. CASE LocalOf(w[n], p.sid)
  <2>1. Cardinality(S \ {<<0, n>>}) = Cardinality(S) - 1 BY <1>3, <1>7, <1>8, FS_RemoveElement
  <2> QED BY <2>1, <1>3, <1>4, <1>6, <1>8 DEF Number, S, T
<1>9. CASE ~LocalOf(w[n], p.sid)
  <2>1. T = S BY <1>6, <1>7, <1>9
  <2> QED BY <2>1, <1>3, <1>4, <1>9 DEF Number, S, T
<1> QED BY <1>8, <1>9

\* The hand is empty.
Emptied(p, q, w, n) ==
  /\ \A i, k \in Nat : Spot(p, q, w, n, i, k) <=> Spot(p, q, <<>>, 0, i, k)
  /\ \A i, k \in Nat : Later(p, q, w, n, i, k) <=> Later(p, q, <<>>, 0, i, k)
  /\ \A i, k \in Nat : Later(p, q, <<>>, 0, i, k) => i # 0
  /\ Spots(p, q, w, n) = Spots(p, q, <<>>, 0)
  /\ Number(p, q, w, n) = Number(p, q, <<>>, 0)

LEMMA EmptyHand ==
  ASSUME NEW p, NEW q \in Seq(Commands), NEW w \in Seq(Ends \cup Waiting)
  PROVE  Emptied(p, q, w, Len(w))
<1>1. Hand(w, Len(w)) = {} BY HandOfAll
<1>2. Hand(<<>>, 0) = {} BY HandOfNone
<1>3. \A i, k \in Nat : Spot(p, q, w, Len(w), i, k) <=> Spot(p, q, <<>>, 0, i, k) BY <1>1, <1>2 DEF Spot
<1>4. \A i, k \in Nat : Later(p, q, w, Len(w), i, k) <=> Later(p, q, <<>>, 0, i, k) BY <1>1, <1>2 DEF Later
<1>5. \A x : x \in Spots(p, q, w, Len(w)) <=> x \in Spots(p, q, <<>>, 0)
  <2> SUFFICES ASSUME NEW x PROVE x \in Spots(p, q, w, Len(w)) <=> x \in Spots(p, q, <<>>, 0) OBVIOUS
  <2>1. x \in Spots(p, q, w, Len(w)) <=> (x = <<x[1], x[2]>> /\ x[1] \in Nat /\ x[2] \in Nat /\ Spot(p, q, w, Len(w), x[1], x[2]))
    BY SpotsAre
  <2>2. x \in Spots(p, q, <<>>, 0) <=> (x = <<x[1], x[2]>> /\ x[1] \in Nat /\ x[2] \in Nat /\ Spot(p, q, <<>>, 0, x[1], x[2]))
    BY SpotsAre
  <2> QED BY <2>1, <2>2, <1>3
<1>6. Spots(p, q, w, Len(w)) = Spots(p, q, <<>>, 0) BY <1>5
<1>7. \A i, k \in Nat : Later(p, q, <<>>, 0, i, k) => i # 0
  <2>1. 0 \notin DOMAIN q OBVIOUS
  <2> QED BY <2>1, <1>2 DEF Later
<1> QED BY <1>3, <1>4, <1>6, <1>7 DEF Number, Emptied

\* A hand of one.
LEMMA OneIs ==
  ASSUME NEW c \in Ends \cup Waiting
  PROVE  /\ <<c>> \in Seq(Ends \cup Waiting) /\ Len(<<c>>) = 1 /\ <<c>>[1] = c
         /\ DOMAIN <<c>> = {1} /\ Hand(<<c>>, 0) = {1}
<1>1. <<c>> \in Seq(Ends \cup Waiting) /\ Len(<<c>>) = 1 /\ <<c>>[1] = c /\ DOMAIN <<c>> = 1..1 OBVIOUS
<1>2. DOMAIN <<c>> = {1} BY <1>1
<1> QED BY <1>1, <1>2 DEF Hand

HandPlaced(p, r, q, w, c) ==
  /\ \A i, k \in Nat : Spot(r, q, w, 0, i, k)
       <=> (Spot(p, q, <<>>, 0, i, k) \/ (i = 0 /\ k = 1 /\ LocalOf(c, p.sid)))
  /\ \A i, k \in Nat : Later(r, q, w, 0, i, k)
       <=> (Later(p, q, <<>>, 0, i, k) \/ (i = 0 /\ k = 1 /\ Goes(c, p.sid)))
  /\ \A i, k \in Nat : Later(r, q, w, 0, i, k) => Item(q, w, i, k) = IF i = 0 THEN c ELSE Item(q, <<>>, i, k)
  /\ Number(r, q, w, 0) \in Nat /\ Number(p, q, <<>>, 0) \in Nat
  /\ LocalOf(c, p.sid) => Number(r, q, w, 0) = Number(p, q, <<>>, 0) + 1
  /\ ~LocalOf(c, p.sid) => Number(r, q, w, 0) = Number(p, q, <<>>, 0)

LEMMA HandPlaces ==
  ASSUME NEW p, NEW r, r.sid = p.sid, NEW q \in Seq(Commands), NEW c \in Ends \cup Waiting
  PROVE  HandPlaced(p, r, q, <<c>>, c)
<1> DEFINE w == <<c>>
<1>0. w \in Seq(Ends \cup Waiting) /\ Len(w) = 1 /\ w[1] = c BY OneIs
<1> HIDE DEF w
<1>00. Emptied(p, q, w, 1)
  <2>1. Emptied(p, q, w, Len(w)) BY <1>0, EmptyHand
  <2> QED BY <2>1, <1>0
<1>1. 1 \in 1..Len(w) /\ 1 - 1 = 0 BY <1>0
<1>11a. DropPlaced(r, p, q, w, 1) BY <1>0, <1>1, DropPlaces
<1>2. \A i, k \in Nat : Spot(p, q, w, 1, i, k) <=> (~(i = 0 /\ k = 1) /\ Spot(r, q, w, 0, i, k))
  <2>1. \A i, k \in Nat : Spot(p, q, w, 1, i, k) <=> (~(i = 0 /\ k = 1) /\ Spot(r, q, w, 1 - 1, i, k)) BY <1>11a DEF DropPlaced
  <2> QED BY <2>1, <1>1
<1>3. \A i, k \in Nat : Later(p, q, w, 1, i, k) <=> (~(i = 0 /\ k = 1) /\ Later(r, q, w, 0, i, k))
  <2>1. \A i, k \in Nat : Later(p, q, w, 1, i, k) <=> (~(i = 0 /\ k = 1) /\ Later(r, q, w, 1 - 1, i, k)) BY <1>11a DEF DropPlaced
  <2> QED BY <2>1, <1>1
<1>4. (Spot(r, q, w, 0, 0, 1) <=> LocalOf(c, p.sid)) /\ (Later(r, q, w, 0, 0, 1) <=> Goes(c, p.sid))
  <2>1. (Spot(r, q, w, 1 - 1, 0, 1) <=> LocalOf(w[1], r.sid)) /\ (Later(r, q, w, 1 - 1, 0, 1) <=> Goes(w[1], r.sid))
    BY <1>11a DEF DropPlaced
  <2> QED BY <2>1, <1>0, <1>1
<1>5. \A i, k \in Nat : Spot(p, q, w, 1, i, k) <=> Spot(p, q, <<>>, 0, i, k)
  BY <1>00 DEF Emptied
<1>6. \A i, k \in Nat : Later(p, q, w, 1, i, k) <=> Later(p, q, <<>>, 0, i, k)
  BY <1>00 DEF Emptied
<1>7. Number(p, q, w, 1) = Number(p, q, <<>>, 0) BY <1>00 DEF Emptied
<1>8. /\ Number(p, q, w, 1) \in Nat /\ Number(r, q, w, 0) \in Nat
      /\ LocalOf(c, p.sid) => Number(r, q, w, 0) = Number(p, q, w, 1) + 1
      /\ ~LocalOf(c, p.sid) => Number(r, q, w, 0) = Number(p, q, w, 1)
  BY <1>0, <1>1, DropCount
<1>9. ASSUME NEW i \in Nat, NEW k \in Nat
      PROVE  Spot(r, q, w, 0, i, k) <=> (Spot(p, q, <<>>, 0, i, k) \/ (i = 0 /\ k = 1 /\ LocalOf(c, p.sid)))
  <2>1. CASE i = 0 /\ k = 1 BY <2>1, <1>2, <1>4, <1>5
  <2>2. CASE ~(i = 0 /\ k = 1) BY <2>2, <1>2, <1>5
  <2> QED BY <2>1, <2>2
<1>10. ASSUME NEW i \in Nat, NEW k \in Nat
      PROVE  Later(r, q, w, 0, i, k) <=> (Later(p, q, <<>>, 0, i, k) \/ (i = 0 /\ k = 1 /\ Goes(c, p.sid)))
  <2>1. CASE i = 0 /\ k = 1 BY <2>1, <1>3, <1>4, <1>6
  <2>2. CASE ~(i = 0 /\ k = 1) BY <2>2, <1>3, <1>6
  <2> QED BY <2>1, <2>2
<1>11. ASSUME NEW i \in Nat, NEW k \in Nat, Later(r, q, w, 0, i, k)
       PROVE  Item(q, w, i, k) = IF i = 0 THEN c ELSE Item(q, <<>>, i, k)
  <2>1. CASE i = 0
    <3>2. ~Later(p, q, <<>>, 0, i, k) BY <2>1, <1>00 DEF Emptied
    <3>3. k = 1 BY <1>10, <1>11, <3>2
    <3> QED BY <2>1, <3>3, <1>0 DEF Item
  <2>2. CASE i # 0 BY <2>2 DEF Item
  <2> QED BY <2>1, <2>2
<1>12. HandPlaced(p, r, q, w, c) BY <1>7, <1>8, <1>9, <1>10, <1>11 DEF HandPlaced
<1> QED BY <1>12 DEF w

\* What waited for the head is the hand.
PopPlaced(p, r, q, t, h) ==
  /\ \A i, k \in Nat : Later(r, t, h, 0, i, k) <=> Later(p, q, <<>>, 0, i + 1, k)
  /\ \A i, k \in Nat : Later(r, t, h, 0, i, k) => Item(t, h, i, k) = Item(q, <<>>, i + 1, k)

LEMMA PopLater ==
  ASSUME NEW p, NEW r, r.sid = p.sid, NEW q \in Seq(Commands), q # <<>>
  PROVE  PopPlaced(p, r, q, Tail(q), Head(q).after)
<1> DEFINE t == Tail(q)
           h == Head(q).after
<1>0. /\ q[1] = Head(q) /\ 1 \in DOMAIN q
      /\ \A i \in DOMAIN t : i \in Nat /\ i + 1 \in DOMAIN q /\ t[i] = q[i + 1]
      /\ \A i \in DOMAIN q : i \in Nat /\ i > 0 /\ (i = 1 \/ (i - 1 \in DOMAIN t /\ t[i - 1] = q[i]))
  BY PopIs
<1>00. 0 \notin DOMAIN t OBVIOUS
<1>1. Head(q) \in Commands /\ h \in Seq(Ends \cup Waiting) BY PopIs, CommandIs
<1>2. Hand(h, 0) = DOMAIN h BY <1>1, HandOfAll
<1>20. Hand(<<>>, 0) = {} BY HandOfNone
<1> HIDE DEF t, h
<1>3. ASSUME NEW i \in Nat, NEW k \in Nat
      PROVE  /\ Later(r, t, h, 0, i, k) <=> Later(p, q, <<>>, 0, i + 1, k)
             /\ Later(r, t, h, 0, i, k) => Item(t, h, i, k) = Item(q, <<>>, i + 1, k)
  <2>0. i + 1 # 0 OBVIOUS
  <2>1. CASE i = 0
    <3>1. Later(r, t, h, 0, i, k) <=> (k \in DOMAIN h /\ Goes(h[k], p.sid)) BY <2>1, <1>00, <1>2 DEF Later
    <3>2. i + 1 = 1 BY <2>1
    <3>3. Later(p, q, <<>>, 0, 1, k) <=> (k \in DOMAIN h /\ Goes(h[k], p.sid)) BY <1>0 DEF Later, h
    <3>4. k \in DOMAIN h => k # 0 BY <1>1
    <3>5. Later(r, t, h, 0, i, k) => Item(q, <<>>, 1, k) = h[k] BY <1>0 DEF Item, h
    <3> QED BY <2>1, <3>1, <3>2, <3>3, <3>5 DEF Item
  <2>2. CASE i # 0
    <3>1. i \in DOMAIN t <=> i + 1 \in DOMAIN q BY <2>2, <1>0
    <3>2. i \in DOMAIN t => t[i] = q[i + 1] BY <1>0
    <3>3. Later(r, t, h, 0, i, k) <=> Later(p, q, <<>>, 0, i + 1, k) BY <2>0, <2>2, <3>1, <3>2, <1>20 DEF Later
    <3>4. Later(r, t, h, 0, i, k) => i \in DOMAIN t BY <2>2 DEF Later
    <3> QED BY <2>0, <2>2, <3>2, <3>3, <3>4 DEF Item
  <2> QED BY <2>1, <2>2
<1> QED BY <1>3 DEF t, h, PopPlaced

-----------------------------------------------------------------------------
(* What the saves bring. *)

\* What the saves bring, as the queue changes.
LEMMA ValuesAre ==
  ASSUME NEW p, NEW q \in Seq(Commands), NEW x
  PROVE  /\ \A n : x \in Values(p, q, n) <=> \E i \in Pending(p, q) : i <= n /\ x \in q[i].value
         /\ x \in Coming(p, q) <=> \E i \in Pending(p, q) : x \in q[i].value
<1>1. \A n : x \in Values(p, q, n) <=> \E i \in Pending(p, q) : i <= n /\ x \in q[i].value BY DEF Values
<1>2. \A i \in Pending(p, q) : i <= Len(q)
  <2>1. \A i \in DOMAIN q : i <= Len(q) OBVIOUS
  <2> QED BY <2>1 DEF Pending
<1> QED BY <1>1, <1>2 DEF Coming

LEMMA PushValues ==
  ASSUME NEW p, NEW r, r.sid = p.sid, NEW q \in Seq(Commands), NEW c \in Commands
  PROVE  /\ \A i : i \in Pending(r, Append(q, c))
                     <=> (i \in Pending(p, q) \/ (i = Len(q) + 1 /\ c.type = "global" /\ c.sid = p.sid))
         /\ \A i \in 0..Len(q) : Values(r, Append(q, c), i) = Values(p, q, i)
         /\ Values(r, Append(q, c), Len(q) + 1) = Coming(r, Append(q, c))
         /\ \A x : x \in Coming(r, Append(q, c))
                     <=> (x \in Coming(p, q) \/ (c.type = "global" /\ c.sid = p.sid /\ x \in c.value))
<1> DEFINE u == Append(q, c)
           l == Len(q) + 1
<1>0. /\ u \in Seq(Commands) /\ Len(q) \in Nat /\ Len(u) = l /\ u[l] = c /\ l \in DOMAIN u /\ l \notin DOMAIN q
      /\ \A i \in DOMAIN q : i \in Nat /\ i <= Len(q) /\ i \in DOMAIN u /\ u[i] = q[i]
      /\ \A i \in DOMAIN u : i \in DOMAIN q \/ i = l
      /\ \A i \in 0..Len(q) : ~(l <= i)
  BY PushIs
<1> HIDE DEF u, l
<1>1. \A i : i \in Pending(r, u) <=> (i \in Pending(p, q) \/ (i = l /\ c.type = "global" /\ c.sid = p.sid))
  BY <1>0 DEF Pending
<1>2. \A i \in Pending(p, q) : u[i] = q[i] BY <1>0 DEF Pending
<1>3. \A i \in 0..Len(q) : Values(r, u, i) = Values(p, q, i)
  <2> SUFFICES ASSUME NEW i \in 0..Len(q), NEW x PROVE x \in Values(r, u, i) <=> x \in Values(p, q, i) OBVIOUS
  <2>1. x \in Values(r, u, i) <=> \E j \in Pending(r, u) : j <= i /\ x \in u[j].value BY <1>0, ValuesAre
  <2>2. x \in Values(p, q, i) <=> \E j \in Pending(p, q) : j <= i /\ x \in q[j].value BY ValuesAre
  <2> QED BY <2>1, <2>2, <1>0, <1>1, <1>2
<1>4. Values(r, u, l) = Coming(r, u) BY <1>0 DEF Coming
<1>5. \A x : x \in Coming(r, u) <=> (x \in Coming(p, q) \/ (c.type = "global" /\ c.sid = p.sid /\ x \in c.value))
  <2> SUFFICES ASSUME NEW x
               PROVE x \in Coming(r, u) <=> (x \in Coming(p, q) \/ (c.type = "global" /\ c.sid = p.sid /\ x \in c.value))
    OBVIOUS
  <2>1. x \in Coming(r, u) <=> \E j \in Pending(r, u) : x \in u[j].value BY <1>0, ValuesAre
  <2>2. x \in Coming(p, q) <=> \E j \in Pending(p, q) : x \in q[j].value BY ValuesAre
  <2> QED BY <2>1, <2>2, <1>0, <1>1, <1>2
<1> QED BY <1>1, <1>3, <1>4, <1>5 DEF u, l

LEMMA AlikeValues ==
  ASSUME NEW p, NEW q \in Seq(Commands), NEW u \in Seq(Commands),
         DOMAIN u = DOMAIN q, \A j \in DOMAIN q : Alike(u[j], q[j]), NEW i
  PROVE  /\ Pending(p, u) = Pending(p, q)
         /\ Values(p, u, i) = Values(p, q, i)
         /\ Coming(p, u) = Coming(p, q)
<1>1. Pending(p, u) = Pending(p, q) BY DEF Pending, Alike
<1>2. \A j \in Pending(p, q) : u[j].value = q[j].value BY DEF Pending, Alike
<1>3. Values(p, u, i) = Values(p, q, i)
  <2> SUFFICES ASSUME NEW x PROVE x \in Values(p, u, i) <=> x \in Values(p, q, i) OBVIOUS
  <2>1. x \in Values(p, u, i) <=> \E j \in Pending(p, u) : j <= i /\ x \in u[j].value BY ValuesAre
  <2>2. x \in Values(p, q, i) <=> \E j \in Pending(p, q) : j <= i /\ x \in q[j].value BY ValuesAre
  <2> QED BY <2>1, <2>2, <1>1, <1>2
<1>4. Coming(p, u) = Coming(p, q)
  <2> SUFFICES ASSUME NEW x PROVE x \in Coming(p, u) <=> x \in Coming(p, q) OBVIOUS
  <2>1. x \in Coming(p, u) <=> \E j \in Pending(p, u) : x \in u[j].value BY ValuesAre
  <2>2. x \in Coming(p, q) <=> \E j \in Pending(p, q) : x \in q[j].value BY ValuesAre
  <2> QED BY <2>1, <2>2, <1>1, <1>2
<1> QED BY <1>1, <1>3, <1>4

LEMMA PopValues ==
  ASSUME NEW p, NEW r, r.sid = p.sid, NEW q \in Seq(Commands), q # <<>>
  PROVE  /\ \A i \in Nat : i \in Pending(r, Tail(q)) <=> (i # 0 /\ i + 1 \in Pending(p, q))
         /\ \A i : i \in Pending(p, q) => (i = 1 \/ i - 1 \in Pending(r, Tail(q)))
         /\ 1 \in Pending(p, q) <=> (Head(q).type = "global" /\ Head(q).sid = p.sid)
         /\ \A i \in Nat : \A x : x \in Values(p, q, i + 1)
              => (x \in Values(r, Tail(q), i) \/ (Head(q).type = "global" /\ Head(q).sid = p.sid /\ x \in Head(q).value))
         /\ \A x : x \in Coming(p, q)
              => (x \in Coming(r, Tail(q)) \/ (Head(q).type = "global" /\ Head(q).sid = p.sid /\ x \in Head(q).value))
         /\ Values(p, q, 0) = {}
<1> DEFINE t == Tail(q)
<1>0. /\ t \in Seq(Commands) /\ q[1] = Head(q) /\ 1 \in DOMAIN q
      /\ \A i \in DOMAIN t : i \in Nat /\ i + 1 \in DOMAIN q /\ t[i] = q[i + 1]
      /\ \A i \in DOMAIN q : i \in Nat /\ i > 0 /\ (i = 1 \/ (i - 1 \in DOMAIN t /\ t[i - 1] = q[i]))
  BY PopIs
<1>00. 0 \notin DOMAIN t /\ 0 \notin DOMAIN q OBVIOUS
<1> HIDE DEF t
<1>1. \A i \in Nat : i \in Pending(r, t) <=> (i # 0 /\ i + 1 \in Pending(p, q))
  <2> SUFFICES ASSUME NEW i \in Nat PROVE i \in Pending(r, t) <=> (i # 0 /\ i + 1 \in Pending(p, q)) OBVIOUS
  <2>1. CASE i = 0 BY <2>1, <1>00 DEF Pending
  <2>2. CASE i # 0
    <3>1. i \in DOMAIN t <=> i + 1 \in DOMAIN q BY <2>2, <1>0
    <3> QED BY <2>2, <3>1, <1>0 DEF Pending
  <2> QED BY <2>1, <2>2
<1>2. \A i : i \in Pending(p, q) => (i = 1 \/ i - 1 \in Pending(r, t))
  BY <1>0 DEF Pending
<1>3. 1 \in Pending(p, q) <=> (Head(q).type = "global" /\ Head(q).sid = p.sid) BY <1>0 DEF Pending
<1>4. \A j \in Pending(p, q) : j \in Nat /\ j > 0 /\ (j = 1 \/ (j - 1 \in Pending(r, t) /\ t[j - 1] = q[j]))
  BY <1>0, <1>2 DEF Pending
<1>5. ASSUME NEW i \in Nat, NEW x, x \in Values(p, q, i + 1)
      PROVE  x \in Values(r, t, i) \/ (Head(q).type = "global" /\ Head(q).sid = p.sid /\ x \in Head(q).value)
  <2>1. PICK j \in Pending(p, q) : j <= i + 1 /\ x \in q[j].value BY <1>5, ValuesAre
  <2>2. CASE j = 1 BY <2>1, <2>2, <1>0, <1>3
  <2>3. CASE j # 1
    <3>1. j - 1 \in Pending(r, t) /\ t[j - 1] = q[j] /\ j \in Nat BY <2>3, <1>4
    <3>2. j - 1 <= i BY <3>1, <2>1
    <3>3. x \in Values(r, t, i) <=> \E k \in Pending(r, t) : k <= i /\ x \in t[k].value BY <1>0, ValuesAre
    <3> QED BY <3>1, <3>2, <3>3, <2>1
  <2> QED BY <2>2, <2>3
<1>6. ASSUME NEW x, x \in Coming(p, q)
      PROVE  x \in Coming(r, t) \/ (Head(q).type = "global" /\ Head(q).sid = p.sid /\ x \in Head(q).value)
  <2>1. PICK j \in Pending(p, q) : x \in q[j].value BY <1>6, ValuesAre
  <2>2. CASE j = 1 BY <2>1, <2>2, <1>0, <1>3
  <2>3. CASE j # 1
    <3>1. j - 1 \in Pending(r, t) /\ t[j - 1] = q[j] /\ j \in Nat BY <2>3, <1>4
    <3>3. x \in Coming(r, t) <=> \E k \in Pending(r, t) : x \in t[k].value BY <1>0, ValuesAre
    <3> QED BY <3>1, <3>3, <2>1
  <2> QED BY <2>2, <2>3
<1>7. Values(p, q, 0) = {}
  <2> SUFFICES ASSUME NEW x, x \in Values(p, q, 0) PROVE FALSE OBVIOUS
  <2>1. PICK j \in Pending(p, q) : j <= 0 BY ValuesAre
  <2> QED BY <2>1, <1>4
<1> QED BY <1>1, <1>2, <1>3, <1>5, <1>6, <1>7 DEF t

\* No place but those there were.
LEMMA SpotIn ==
  ASSUME NEW p, NEW q, NEW w, NEW n, NEW i \in Nat, NEW k \in Nat, Spot(p, q, w, n, i, k)
  PROVE  <<i, k>> \in Spots(p, q, w, n) /\ Spots(p, q, w, n) # {}
BY DEF Spots

LEMMA NoSpots ==
  ASSUME NEW p, NEW q, NEW w, NEW n, NEW r, NEW u, NEW v, NEW m, Spots(r, u, v, m) = {},
         \A i, k \in Nat : Spot(p, q, w, n, i, k) => \E j, l \in Nat : Spot(r, u, v, m, j, l)
  PROVE  Spots(p, q, w, n) = {}
<1> SUFFICES ASSUME NEW x \in Spots(p, q, w, n) PROVE FALSE OBVIOUS
<1>1. x[1] \in Nat /\ x[2] \in Nat /\ Spot(p, q, w, n, x[1], x[2]) BY SpotsAre
<1>2. PICK j \in Nat, l \in Nat : Spot(r, u, v, m, j, l) BY <1>1
<1> QED BY <1>2, SpotIn

-----------------------------------------------------------------------------
(* What moves keep of the invariant's parts about the page. *)

\* The fields of what is made or changed.
LEMMA SaveIs ==
  ASSUME NEW p \in Page, NEW w \in Seq(Ends \cup Waiting)
  PROVE  LET c == Save(p, w)
         IN /\ c \in Commands /\ c.type = "global" /\ c.sid = p.sid /\ c.value = p.adj /\ c.gen = p.gen
            /\ c.group = p.group /\ c.seen = p.adj /\ c.after = w
<1>1. /\ p.sid \in Nat /\ p.adj \subseteq GlobalIds /\ p.gen \in Nat /\ p.group \in Nat BY DEF Page
<1>2. Save(p, w) = [type |-> "global", sid |-> p.sid, value |-> p.adj, gen |-> p.gen, group |-> p.group,
                    seen |-> p.adj, after |-> w]
  <2> DEFINE b == Command(p, "global", p.adj)
  <2>1. b = [type |-> "global", sid |-> p.sid, value |-> p.adj, gen |-> p.gen, group |-> NoGroup,
             seen |-> p.adj, after |-> <<>>]
    BY DEF Command
  <2>2. Save(p, w) = [b EXCEPT !.group = p.group, !.after = w] BY DEF Save
  <2> HIDE DEF b
  <2> QED BY <2>1, <2>2
<1>3. Save(p, w) \in Saves BY <1>1, <1>2 DEF Saves
<1> QED BY <1>2, <1>3 DEF Commands

LEMMA CommandMade ==
  ASSUME NEW p \in Page, NEW type \in {"local", "undo", "redo"}, NEW value \in SUBSET LocalIds
  PROVE  LET c == Command(p, type, value)
         IN /\ c \in Waiting /\ c \in Ends \cup Waiting /\ c.type = type /\ c.sid = p.sid /\ c.value = value
            /\ c.seen = p.adj /\ c.after = <<>>
<1>1. /\ p.sid \in Nat /\ p.adj \subseteq GlobalIds /\ p.gen \in Nat /\ p.group \in Nat BY DEF Page
<1>2. Command(p, type, value) = [type |-> type, sid |-> p.sid, value |-> value, gen |-> p.gen, group |-> 0,
                    seen |-> p.adj, after |-> <<>>]
  BY DEF Command, NoGroup
<1> QED BY <1>1, <1>2 DEF Waiting

LEMMA DirtyIs ==
  ASSUME NEW p \in Page, NEW b \in BOOLEAN
  PROVE  LET r == [p EXCEPT !.dirty = b]
         IN /\ r \in Page /\ r.dirty = b /\ r.sid = p.sid /\ r.rev = p.rev /\ r.adj = p.adj /\ r.locals = p.locals
            /\ r.gen = p.gen /\ r.held = p.held /\ r.group = p.group /\ r.seq = p.seq /\ r.depth = p.depth
            /\ r.drags = p.drags
BY DEF Page

\* Sync of an unsaved page.
LEMMA MovePushSave ==
  ASSUME NEW p, NEW q, NEW w, NEW t, NEW d, InPage(p, q, w, 0, t, d), p.dirty,
         \A k \in DOMAIN w : w[k].type # "end" => w[k].sid = p.sid
  PROVE  InPage([p EXCEPT !.dirty = FALSE], Append(q, Save(p, w)), <<>>, 0, t, d)
<1> DEFINE r == [p EXCEPT !.dirty = FALSE]
           c == Save(p, w)
           u == Append(q, c)
           l == Len(q) + 1
<1>1. p \in Page /\ q \in Seq(Commands) /\ w \in Seq(Ends \cup Waiting) BY DEF InPage, Shaped
<1>2. /\ c \in Commands /\ c.type = "global" /\ c.sid = p.sid /\ c.value = p.adj /\ c.gen = p.gen
      /\ c.group = p.group /\ c.seen = p.adj /\ c.after = w
  BY <1>1, SaveIs
<1>3. /\ r \in Page /\ r.dirty = FALSE /\ r.sid = p.sid /\ r.rev = p.rev /\ r.adj = p.adj /\ r.locals = p.locals
      /\ r.gen = p.gen /\ r.held = p.held /\ r.group = p.group /\ r.seq = p.seq /\ r.depth = p.depth
      /\ r.drags = p.drags
  BY <1>1, DirtyIs
<1> HIDE DEF c, r
<1>4. /\ u \in Seq(Commands) /\ Len(q) \in Nat /\ Len(u) = l /\ u[l] = c /\ l \in DOMAIN u /\ l \notin DOMAIN q
      /\ \A i \in DOMAIN q : i \in Nat /\ i > 0 /\ i <= Len(q) /\ i \in DOMAIN u /\ u[i] = q[i]
      /\ \A i \in DOMAIN u : i \in DOMAIN q \/ i = l
  BY <1>1, <1>2, PushIs
<1>5. /\ \A i : i \in Pending(r, u) <=> (i \in Pending(p, q) \/ i = l)
      /\ \A i \in 0..Len(q) : Values(r, u, i) = Values(p, q, i)
      /\ Values(r, u, l) = Coming(r, u)
      /\ \A x : x \in Coming(r, u) <=> (x \in Coming(p, q) \/ x \in p.adj)
  BY <1>1, <1>2, <1>3, PushValues
<1>6. Hand(w, 0) = DOMAIN w /\ DOMAIN w = 1..Len(w) BY <1>1, HandOfAll
<1>7. Hand(<<>>, 0) = {} BY HandOfNone
<1>80. SavePlaced(p, r, q, w, u, l) BY <1>1, <1>2, <1>3, PushSavePlaces
<1>8a. \A i, k \in Nat : Spot(r, u, <<>>, 0, i, k)
         <=> ((i = l /\ Spot(p, q, w, 0, 0, k)) \/ (i # l /\ i # 0 /\ Spot(p, q, w, 0, i, k)))
  BY <1>80 DEF SavePlaced
<1>8b. \A i, k \in Nat : Later(r, u, <<>>, 0, i, k)
         <=> ((i = l /\ Later(p, q, w, 0, 0, k)) \/ (i # l /\ i # 0 /\ Later(p, q, w, 0, i, k)))
  BY <1>80 DEF SavePlaced
<1>8c. \A i, k \in Nat : Later(r, u, <<>>, 0, i, k)
         => Item(u, <<>>, i, k) = Item(q, w, IF i = l THEN 0 ELSE i, k)
  BY <1>80 DEF SavePlaced
<1>9. Number(r, u, <<>>, 0) = Number(p, q, w, 0) BY <1>1, <1>2, <1>3, PushSaveCount
<1>10. l \in Nat /\ l # 0 /\ \A i \in DOMAIN q : i < l /\ i # 0 /\ i \in 0..Len(q) BY <1>4
<1>11. Now(r) <=> Now(p) BY <1>3 DEF Now
<1> HIDE DEF u, l
<1>a. Shaped(r, u, <<>>) BY <1>3, <1>4 DEF Shaped
<1>b. Sessions(r, u, <<>>, 0)
  <2>1. Sessions(p, q, w, 0) BY DEF InPage
  <2>2. p.sid \in Nat BY <1>1 DEF Page
  <2>3. c.sid <= p.sid BY <2>2, <1>2
  <2>4. \A i \in DOMAIN u : u[i].sid <= r.sid BY <2>1, <2>3, <1>3, <1>4 DEF Sessions
  <2>5. \A i \in DOMAIN u : \A k \in DOMAIN u[i].after : u[i].after[k].type # "end" => u[i].after[k].sid = u[i].sid
    <3> SUFFICES ASSUME NEW i \in DOMAIN u, NEW k \in DOMAIN u[i].after, u[i].after[k].type # "end"
                 PROVE  u[i].after[k].sid = u[i].sid
      OBVIOUS
    <3>1. CASE i = l BY <3>1, <1>2, <1>4
    <3>2. CASE i # l BY <3>2, <1>4, <2>1 DEF Sessions
    <3> QED BY <3>1, <3>2
  <2> QED BY <2>1, <2>4, <2>5, <1>3, <1>7 DEF Sessions
<1>c. Generations(r, u)
  <2> SUFFICES ASSUME Now(p), NEW i \in Pending(r, u)
               PROVE  /\ u[i].gen <= p.gen
                      /\ u[i].gen # p.gen => \E j \in Pending(r, u) : i < j
                      /\ u[i].gen = p.gen => p.adj \subseteq u[i].value \cup server.ever
    BY <1>3, <1>11 DEF Generations
  <2>0. p.gen \in Nat BY <1>1 DEF Page
  <2>1. CASE i = l BY <2>0, <2>1, <1>2, <1>4
  <2>2. CASE i # l
    <3>1. i \in Pending(p, q) /\ i \in DOMAIN q BY <2>2, <1>5 DEF Pending
    <3>2. i < l /\ l \in Pending(r, u) BY <3>1, <1>5, <1>10
    <3>3. u[i] = q[i] BY <3>1, <1>4
    <3> QED BY <3>1, <3>2, <3>3 DEF InPage, Generations
  <2> QED BY <2>1, <2>2
<1>d. Showing(r, u)
  <2>1. l \in Pending(r, u) BY <1>5
  <2> QED BY <2>1 DEF Showing
<1>e. Undos(r, u, <<>>, 0, t)
  <2> SUFFICES ASSUME Now(p), "failed" \notin t, NEW i \in DOMAIN u
               PROVE  /\ UndoOf(u[i], p.sid) => u[i].seen \subseteq server.ever \cup Values(r, u, i)
                      /\ \A k \in DOMAIN u[i].after :
                           UndoOf(u[i].after[k], p.sid) => u[i].after[k].seen \subseteq server.ever \cup Values(r, u, i)
    BY <1>3, <1>7, <1>11 DEF Undos
  <2>1. Undos(p, q, w, 0, t) BY DEF InPage
  <2>2. CASE i = l
    <3>1. \A k \in DOMAIN w : UndoOf(w[k], p.sid) => w[k].seen \subseteq server.ever \cup Coming(p, q) \cup p.adj
      BY <2>1, <1>6 DEF Undos
    <3>2. Values(r, u, i) = Coming(r, u) BY <1>5, <2>2
    <3>3. ~UndoOf(u[i], p.sid) BY <1>2, <1>4, <2>2 DEF UndoOf
    <3>4. u[i].after = w BY <1>2, <1>4, <2>2
    <3>5. Coming(p, q) \cup p.adj \subseteq Coming(r, u) BY <1>5
    <3> QED BY <3>1, <3>2, <3>3, <3>4, <3>5
  <2>3. CASE i # l
    <3>1. i \in DOMAIN q /\ u[i] = q[i] BY <2>3, <1>4
    <3>2. Values(r, u, i) = Values(p, q, i) BY <1>5, <1>10, <3>1
    <3> QED BY <3>1, <3>2, <2>1 DEF Undos
  <2> QED BY <2>2, <2>3
<1>f. Unsaved(r, u, t)
  <2>1. p.adj \subseteq Coming(r, u) BY <1>5
  <2> QED BY <2>1, <1>3 DEF Unsaved
<1>g. Gestures(r, u, <<>>, 0)
  <2>1. Gestures(p, q, w, 0) BY DEF InPage
  <2>2. Made(r) = Made(p) BY <1>3 DEF Made
  <2>3. \A x : Gone(r, x) <=> Gone(p, x) BY <1>3 DEF Gone
  <2>4. \A i \in DOMAIN u : u[i].type = "global" => u[i].value \subseteq Made(r)
    BY <2>1, <2>2, <1>2, <1>4 DEF Gestures
  <2>5. \A i \in DOMAIN u : \A k \in DOMAIN u[i].after : Gone(r, u[i].after[k])
    <3> SUFFICES ASSUME NEW i \in DOMAIN u, NEW k \in DOMAIN u[i].after PROVE Gone(p, u[i].after[k]) BY <2>3
    <3>1. CASE i = l BY <3>1, <2>1, <1>2, <1>4, <1>6 DEF Gestures
    <3>2. CASE i # l BY <3>2, <2>1, <1>4 DEF Gestures
    <3> QED BY <3>1, <3>2
  <2> QED BY <2>1, <2>2, <2>4, <2>5, <1>3, <1>7 DEF Gestures
<1>h. Dragged(r, u, <<>>, 0, t)
  <2> SUFFICES ASSUME Now(p), "failed" \notin t PROVE Dragged(r, u, <<>>, 0, t) BY <1>11 DEF Dragged
  <2>1. Dragged(p, q, w, 0, t) BY DEF InPage
  <2>2. p.adj \subseteq Coming(r, u) BY <1>5
  <2>3. ASSUME NEW i \in Pending(r, u), NEW e \in (u[i].value \cap DOMAIN p.drags) \ (server.ever \cup Values(r, u, i - 1))
        PROVE  p.drags[e] \in {NoGroup, u[i].group}
    <3>1. CASE i = l
      <4>1. l - 1 = Len(q) /\ Len(q) \in 0..Len(q) BY <1>4 DEF l
      <4>2. Values(r, u, i - 1) = Coming(p, q) BY <3>1, <4>1, <1>5 DEF Coming
      <4>3. e \in (p.adj \cap DOMAIN p.drags) \ (server.ever \cup Coming(p, q)) BY <3>1, <4>2, <2>3, <1>2, <1>4
      <4>4. p.drags[e] = NoGroup \/ p.drags[e] = p.group BY <4>3, <2>1 DEF Dragged
      <4> QED BY <3>1, <4>4, <1>2, <1>4
    <3>2. CASE i # l
      <4>1. i \in Pending(p, q) /\ i \in DOMAIN q BY <3>2, <1>5 DEF Pending
      <4>2. u[i] = q[i] /\ i \in Nat /\ i > 0 /\ i <= Len(q) BY <4>1, <1>4
      <4>3. i - 1 \in 0..Len(q) BY <4>2, <1>4
      <4>4. Values(r, u, i - 1) = Values(p, q, i - 1) BY <4>3, <1>5
      <4> QED BY <4>1, <4>2, <4>4, <2>1, <2>3 DEF Dragged
    <3> QED BY <3>1, <3>2
  <2> QED BY <2>2, <2>3, <1>3 DEF Dragged
<1>i. Depths(r, u, <<>>, 0, t)
  <2>1. Depths(p, q, w, 0, t) BY DEF InPage
  <2>2. "inherited" \notin t => Mine(u, r.sid)
    <3> SUFFICES ASSUME "inherited" \notin t, NEW i \in DOMAIN u
                 PROVE  /\ u[i].type = "local" => u[i].sid = p.sid
                        /\ \A k \in DOMAIN u[i].after : u[i].after[k].type = "local" => u[i].after[k].sid = p.sid
      BY <1>3 DEF Mine
    <3>1. CASE i = l BY <3>1, <1>2, <1>4
    <3>2. CASE i # l BY <3>2, <2>1, <1>4 DEF Depths, Mine
    <3> QED BY <3>1, <3>2
  <2>3. MineHand(<<>>, 0, r.sid) BY <1>7 DEF MineHand
  <2> QED BY <2>1, <2>2, <2>3, <1>3, <1>9 DEF Depths
<1>j. Alone(r, u, <<>>, 0, t)
  <2> SUFFICES ASSUME Now(p), "overtaken" \notin t, NEW i \in Nat, NEW k \in Nat, NEW j \in Nat, NEW m \in Nat,
                      Later(r, u, <<>>, 0, i, k), Later(r, u, <<>>, 0, j, m)
               PROVE  i = j /\ k = m
    BY <1>11 DEF Alone
  <2>1. \A a, b, x, y \in Nat : Later(p, q, w, 0, a, b) /\ Later(p, q, w, 0, x, y) => a = x /\ b = y
    BY DEF InPage, Alone
  <2>2. /\ Later(p, q, w, 0, IF i = l THEN 0 ELSE i, k) /\ (i = l \/ i # 0)
        /\ Later(p, q, w, 0, IF j = l THEN 0 ELSE j, m) /\ (j = l \/ j # 0)
    BY <1>8a, <1>8b, <1>8c
  <2>3. (IF i = l THEN 0 ELSE i) \in Nat /\ (IF j = l THEN 0 ELSE j) \in Nat OBVIOUS
  <2>4. (IF i = l THEN 0 ELSE i) = (IF j = l THEN 0 ELSE j) /\ k = m BY <2>1, <2>2, <2>3
  <2> QED BY <2>2, <2>4
<1>k. Strokes(r, u, <<>>, 0, t, d)
  <2> SUFFICES ASSUME Now(p), "failed" \notin t, "overtaken" \notin t, ~d PROVE Strokes(r, u, <<>>, 0, t, d)
    BY <1>11 DEF Strokes
  <2>1. /\ Spots(p, q, w, 0) = {} /\ p.rev = server.rev => p.locals = server.local
        /\ p.depth > 0 =>
             /\ \A i, k \in Nat : LaterLocal(p, q, w, 0, i, k) => Item(q, w, i, k).value = p.locals
             /\ \A i \in DOMAIN q : Newest(p, q, i) =>
                  q[i].value = p.locals \/ \E j, m \in Nat : LaterLocal(p, q, w, 0, j, m)
    BY DEF InPage, Strokes
  <2>2. Spots(r, u, <<>>, 0) = {} => Spots(p, q, w, 0) = {}
    <3>1. ASSUME NEW i \in Nat, NEW k \in Nat, Spot(p, q, w, 0, i, k)
          PROVE  \E j, m \in Nat : Spot(r, u, <<>>, 0, j, m)
      <4>1. CASE i = 0 BY <3>1, <4>1, <1>8a, <1>8b, <1>8c, <1>10
      <4>2. CASE i # 0
        <5>1. i \in DOMAIN q BY <3>1, <4>2 DEF Spot
        <5>2. i # l BY <5>1, <1>4
        <5> QED BY <3>1, <4>2, <5>2, <1>8a, <1>8b, <1>8c
      <4> QED BY <4>1, <4>2
    <3> QED BY <3>1, NoSpots
  <2>3. ASSUME p.depth > 0, NEW i \in Nat, NEW k \in Nat, LaterLocal(r, u, <<>>, 0, i, k)
        PROVE  Item(u, <<>>, i, k).value = p.locals
    <3>1. Later(r, u, <<>>, 0, i, k) /\ Item(u, <<>>, i, k).type = "local" BY <2>3 DEF LaterLocal
    <3>2. Item(u, <<>>, i, k) = Item(q, w, IF i = l THEN 0 ELSE i, k) BY <3>1, <1>8a, <1>8b, <1>8c
    <3>3. Later(p, q, w, 0, IF i = l THEN 0 ELSE i, k) /\ (IF i = l THEN 0 ELSE i) \in Nat BY <3>1, <1>8a, <1>8b, <1>8c
    <3>4. LaterLocal(p, q, w, 0, IF i = l THEN 0 ELSE i, k) BY <3>1, <3>2, <3>3 DEF LaterLocal
    <3> QED BY <3>2, <3>3, <3>4, <2>1, <2>3
  <2>4. ASSUME p.depth > 0, NEW i \in DOMAIN u, Newest(r, u, i)
        PROVE  u[i].value = p.locals \/ \E j, m \in Nat : LaterLocal(r, u, <<>>, 0, j, m)
    <3>1. i # l BY <2>4, <1>2, <1>4 DEF Newest, LocalOf
    <3>2. i \in DOMAIN q /\ u[i] = q[i] BY <3>1, <1>4
    <3>3. Newest(p, q, i) BY <2>4, <3>2, <1>3, <1>4 DEF Newest
    <3>4. CASE \E j, m \in Nat : LaterLocal(p, q, w, 0, j, m)
      <4>1. PICK j \in Nat, m \in Nat : LaterLocal(p, q, w, 0, j, m) BY <3>4
      <4>2. Later(p, q, w, 0, j, m) /\ Item(q, w, j, m).type = "local" BY <4>1 DEF LaterLocal
      <4>3. CASE j = 0
        <5>1. Later(r, u, <<>>, 0, l, m) BY <4>2, <4>3, <1>8a, <1>8b, <1>8c, <1>10
        <5>2. Item(u, <<>>, l, m) = Item(q, w, 0, m) BY <5>1, <1>8a, <1>8b, <1>8c, <1>10
        <5> QED BY <5>1, <5>2, <4>2, <4>3, <1>10 DEF LaterLocal
      <4>4. CASE j # 0
        <5>1. j \in DOMAIN q BY <4>2, <4>4 DEF Later
        <5>2. j # l BY <5>1, <1>4
        <5>3. Later(r, u, <<>>, 0, j, m) BY <4>2, <4>4, <5>2, <1>8a, <1>8b, <1>8c
        <5>4. Item(u, <<>>, j, m) = Item(q, w, j, m) BY <5>2, <5>3, <1>8a, <1>8b, <1>8c
        <5> QED BY <5>3, <5>4, <4>2 DEF LaterLocal
      <4> QED BY <4>3, <4>4
    <3> QED BY <2>1, <2>4, <3>2, <3>3, <3>4
  <2> QED BY <2>1, <2>2, <2>3, <2>4, <1>3 DEF Strokes
<1> QED BY <1>a, <1>b, <1>c, <1>d, <1>e, <1>f, <1>g, <1>h, <1>i, <1>j, <1>k DEF InPage, r, u, c

\* Sync of a page whose last save is still queued.
LEMMA MoveAttach ==
  ASSUME NEW p, NEW q, NEW w, NEW t, NEW d, InPage(p, q, w, 0, t, d), "failed" \in t \/ ~p.dirty,
         \A k \in DOMAIN w : w[k].type # "end" => w[k].sid = p.sid,
         NEW i \in Pending(p, q), \A j \in Pending(p, q) : j <= i
  PROVE  InPage(p, Joined(q, i, w), <<>>, 0, t, d)
<1> DEFINE u == Joined(q, i, w)
           a == Len(q[i].after)
<1>1. p \in Page /\ q \in Seq(Commands) /\ w \in Seq(Ends \cup Waiting) BY DEF InPage, Shaped
<1>2. i \in DOMAIN q /\ q[i].type = "global" /\ q[i].sid = p.sid BY DEF Pending
<1>3. /\ u \in Seq(Commands) /\ DOMAIN u = DOMAIN q /\ Len(u) = Len(q)
      /\ \A j \in DOMAIN q : Alike(u[j], q[j])
      /\ \A j \in DOMAIN q : j # i => u[j] = q[j]
      /\ u[i].after = q[i].after \o w
  <2>1. LET r == [q EXCEPT ![i].after = @ \o w]
        IN /\ r \in Seq(Commands) /\ DOMAIN r = DOMAIN q /\ Len(r) = Len(q)
           /\ \A j \in DOMAIN q : Alike(r[j], q[j])
           /\ \A j \in DOMAIN q : j # i => r[j] = q[j]
           /\ r[i].after = q[i].after \o w BY <1>1, <1>2, AttachIs
  <2> QED BY <2>1 DEF Joined
<1>4. Attached(p, q, w, i, u, a) BY <1>1, <1>2, AttachPlaces
<1>5. Number(p, u, <<>>, 0) = Number(p, q, w, 0) BY <1>1, <1>2, AttachCount
<1> HIDE DEF u, a
<1>6. Hand(w, 0) = DOMAIN w BY <1>1, HandOfAll
<1>7. Hand(<<>>, 0) = {} BY HandOfNone
<1>8. /\ Pending(p, u) = Pending(p, q) /\ \A j : Values(p, u, j) = Values(p, q, j)
      /\ Coming(p, u) = Coming(p, q)
  <2>1. ASSUME NEW j
        PROVE  Pending(p, u) = Pending(p, q) /\ Values(p, u, j) = Values(p, q, j) /\ Coming(p, u) = Coming(p, q)
    BY <1>1, <1>3, AlikeValues
  <2> QED BY <2>1
<1>9. ASSUME NEW k \in DOMAIN u[i].after
      PROVE \/ k \in DOMAIN q[i].after /\ u[i].after[k] = q[i].after[k]
            \/ \E m \in DOMAIN w : u[i].after[k] = w[m]
  <2>1. q[i].after \in Seq(Ends \cup Waiting)
    <3>1. q[i] \in Commands BY <1>1, <1>2
    <3> QED BY <3>1, CommandIs
  <2> DEFINE b == q[i].after
  <2>20. b \in Seq(Ends \cup Waiting) BY <2>1
  <2>2. /\ \A x \in DOMAIN b : (b \o w)[x] = b[x]
        /\ \A x \in DOMAIN (b \o w) : x \in DOMAIN b \/ (x - Len(b) \in DOMAIN w /\ (b \o w)[x] = w[x - Len(b)])
    <3> HIDE DEF b
    <3> QED BY <1>1, <2>20
  <2> HIDE DEF b
  <2> QED BY <2>2, <1>3, <1>9 DEF b
<1>10. \A x : x \in Coming(p, q) => x \in Values(p, q, i)
  <2> SUFFICES ASSUME NEW x, x \in Coming(p, q) PROVE x \in Values(p, q, i) OBVIOUS
  <2>1. PICK j \in Pending(p, q) : x \in q[j].value BY <1>1, ValuesAre
  <2>2. x \in Values(p, q, i) <=> \E k \in Pending(p, q) : k <= i /\ x \in q[k].value BY <1>1, ValuesAre
  <2> QED BY <2>1, <2>2
<1>a. Shaped(p, u, <<>>) BY <1>1, <1>3 DEF Shaped
<1>b. Sessions(p, u, <<>>, 0)
  <2>1. Sessions(p, q, w, 0) BY DEF InPage
  <2>2. \A j \in DOMAIN u : u[j].sid = q[j].sid BY <1>3 DEF Alike
  <2>3. ASSUME NEW j \in DOMAIN u, NEW k \in DOMAIN u[j].after, u[j].after[k].type # "end"
        PROVE  u[j].after[k].sid = u[j].sid
    <3>1. CASE j = i
      <4>1. CASE k \in DOMAIN q[i].after /\ u[i].after[k] = q[i].after[k]
        BY <3>1, <4>1, <2>1, <2>2, <2>3, <1>2 DEF Sessions
      <4>2. CASE \E m \in DOMAIN w : u[i].after[k] = w[m] BY <3>1, <4>2, <2>2, <2>3, <1>2
      <4> QED BY <3>1, <4>1, <4>2, <1>9, <2>3
    <3>2. CASE j # i BY <3>2, <2>1, <2>3, <1>3 DEF Sessions
    <3> QED BY <3>1, <3>2
  <2> QED BY <2>1, <2>2, <2>3, <1>3, <1>7 DEF Sessions
<1>c. Generations(p, u)
  <2>1. \A j \in Pending(p, q) : u[j].gen = q[j].gen /\ u[j].value = q[j].value BY <1>3 DEF Pending, Alike
  <2> QED BY <2>1, <1>8 DEF InPage, Generations
<1>d. Showing(p, u) BY <1>8 DEF InPage, Showing
<1>e. Undos(p, u, <<>>, 0, t)
  <2> SUFFICES ASSUME Now(p), "failed" \notin t, NEW j \in DOMAIN u
               PROVE  /\ UndoOf(u[j], p.sid) => u[j].seen \subseteq server.ever \cup Values(p, u, j)
                      /\ \A k \in DOMAIN u[j].after :
                           UndoOf(u[j].after[k], p.sid) => u[j].after[k].seen \subseteq server.ever \cup Values(p, u, j)
    BY <1>7 DEF Undos
  <2>1. Undos(p, q, w, 0, t) /\ ~p.dirty BY DEF InPage
  <2>2. j \in DOMAIN q /\ Values(p, u, j) = Values(p, q, j) BY <1>3, <1>8
  <2>3. u[j].type = q[j].type /\ u[j].sid = q[j].sid /\ u[j].seen = q[j].seen BY <2>2, <1>3 DEF Alike
  <2>4. UndoOf(u[j], p.sid) => u[j].seen \subseteq server.ever \cup Values(p, u, j)
    BY <2>1, <2>2, <2>3 DEF Undos, UndoOf
  <2>5. CASE j # i
    <3>1. u[j] = q[j] BY <2>2, <2>5, <1>3
    <3> QED BY <2>1, <2>2, <2>4, <3>1 DEF Undos
  <2>6. CASE j = i
    <3>1. \A k \in DOMAIN w : UndoOf(w[k], p.sid) => w[k].seen \subseteq server.ever \cup Coming(p, q)
      BY <2>1, <1>6 DEF Undos
    <3>2. \A k \in DOMAIN w : UndoOf(w[k], p.sid) => w[k].seen \subseteq server.ever \cup Values(p, q, i)
      BY <3>1, <1>10
    <3>3. \A k \in DOMAIN q[i].after :
            UndoOf(q[i].after[k], p.sid) => q[i].after[k].seen \subseteq server.ever \cup Values(p, q, i)
      BY <2>1, <1>2 DEF Undos
    <3> QED BY <2>2, <2>4, <2>6, <3>2, <3>3, <1>9
  <2> QED BY <2>5, <2>6
<1>f. Unsaved(p, u, t) BY <1>8 DEF InPage, Unsaved
<1>g. Gestures(p, u, <<>>, 0)
  <2>1. Gestures(p, q, w, 0) BY DEF InPage
  <2>2. \A j \in DOMAIN u : u[j].type = q[j].type /\ u[j].value = q[j].value BY <1>3 DEF Alike
  <2>3. ASSUME NEW j \in DOMAIN u, NEW k \in DOMAIN u[j].after PROVE Gone(p, u[j].after[k])
    <3>1. CASE j = i
      <4>1. \A m \in DOMAIN w : Gone(p, w[m]) BY <2>1, <1>6 DEF Gestures
      <4>2. \A m \in DOMAIN q[i].after : Gone(p, q[i].after[m]) BY <2>1, <1>2 DEF Gestures
      <4> QED BY <3>1, <4>1, <4>2, <1>9, <2>3
    <3>2. CASE j # i BY <3>2, <2>1, <2>3, <1>3 DEF Gestures
    <3> QED BY <3>1, <3>2
  <2>4. \A j \in DOMAIN u : u[j].type = "global" => u[j].value \subseteq Made(p) BY <2>1, <2>2, <1>3 DEF Gestures
  <2> QED BY <2>1, <2>3, <2>4, <1>7 DEF Gestures
<1>h. Dragged(p, u, <<>>, 0, t)
  <2> SUFFICES ASSUME Now(p), "failed" \notin t PROVE Dragged(p, u, <<>>, 0, t) BY DEF Dragged
  <2>1. Dragged(p, q, w, 0, t) /\ ~p.dirty /\ Unsaved(p, q, t) BY DEF InPage
  <2>2. p.adj \subseteq server.ever \cup Coming(p, u) BY <2>1, <1>8 DEF Unsaved
  <2>3. \A j \in Pending(p, q) : u[j].group = q[j].group /\ u[j].value = q[j].value BY <1>3 DEF Pending, Alike
  <2>4. \A j \in Pending(p, u) :
         \A e \in (u[j].value \cap DOMAIN p.drags) \ (server.ever \cup Values(p, u, j - 1)) :
           p.drags[e] \in {NoGroup, u[j].group}
    BY <2>1, <2>3, <1>8 DEF Dragged
  <2> QED BY <2>2, <2>4 DEF Dragged
<1>i. Depths(p, u, <<>>, 0, t)
  <2>1. Depths(p, q, w, 0, t) BY DEF InPage
  <2>2. "inherited" \notin t => Mine(u, p.sid)
    <3> SUFFICES ASSUME "inherited" \notin t, NEW j \in DOMAIN u
                 PROVE  /\ u[j].type = "local" => u[j].sid = p.sid
                        /\ \A k \in DOMAIN u[j].after : u[j].after[k].type = "local" => u[j].after[k].sid = p.sid
      BY DEF Mine
    <3>1. /\ q[j].type = "local" => q[j].sid = p.sid
          /\ \A k \in DOMAIN q[j].after : q[j].after[k].type = "local" => q[j].after[k].sid = p.sid
      BY <2>1, <1>3 DEF Depths, Mine
    <3>2. \A k \in DOMAIN w : w[k].type = "local" => w[k].sid = p.sid BY <2>1, <1>6 DEF Depths, MineHand
    <3>3. u[j].type = q[j].type /\ u[j].sid = q[j].sid BY <1>3 DEF Alike
    <3>4. CASE j = i BY <3>1, <3>2, <3>3, <3>4, <1>9
    <3>5. CASE j # i BY <3>1, <3>3, <3>5, <1>3
    <3> QED BY <3>4, <3>5
  <2>3. MineHand(<<>>, 0, p.sid) BY <1>7 DEF MineHand
  <2> QED BY <2>1, <2>2, <2>3, <1>5 DEF Depths
<1>11. a \in Nat /\ i \in Nat /\ i # 0 BY <1>4 DEF Attached
<1>12. \A x \in Nat : x > a => x - a \in Nat /\ (\A y \in Nat : y > a /\ y - a = x - a => y = x) BY <1>11
<1>13. \A x \in Nat : a + x \in Nat /\ (x > 0 => a + x > a) /\ a + x - a = x BY <1>11
<1>14. /\ \A j, k \in Nat : Later(p, u, <<>>, 0, j, k)
            <=> ((j # 0 /\ Later(p, q, w, 0, j, k)) \/ (j = i /\ k > a /\ Later(p, q, w, 0, 0, k - a)))
       /\ \A j, k \in Nat : Later(p, u, <<>>, 0, j, k)
            => Item(u, <<>>, j, k) = IF j = i /\ k > a THEN Item(q, w, 0, k - a) ELSE Item(q, w, j, k)
       /\ \A j, k \in Nat : j # 0 /\ Later(p, q, w, 0, j, k) => ~(j = i /\ k > a)
  BY <1>4 DEF Attached
<1>15. \A k \in Nat : Later(p, q, w, 0, 0, k) \/ Spot(p, q, w, 0, 0, k) => k > 0
  <2>1. 0 \notin DOMAIN q BY <1>1
  <2>2. \A k \in Hand(w, 0) : k > 0 BY DEF Hand
  <2> QED BY <2>1, <2>2 DEF Later, Spot
<1>j. Alone(p, u, <<>>, 0, t)
  <2> SUFFICES ASSUME Now(p), "overtaken" \notin t, NEW j \in Nat, NEW k \in Nat, NEW x \in Nat, NEW m \in Nat,
                      Later(p, u, <<>>, 0, j, k), Later(p, u, <<>>, 0, x, m)
               PROVE  j = x /\ k = m
    BY DEF Alone
  <2>1. \A e, b, f, y \in Nat : Later(p, q, w, 0, e, b) /\ Later(p, q, w, 0, f, y) => e = f /\ b = y
    BY DEF InPage, Alone
  <2>2. (j # 0 /\ Later(p, q, w, 0, j, k)) \/ (j = i /\ k > a /\ Later(p, q, w, 0, 0, k - a)) BY <1>14
  <2>3. (x # 0 /\ Later(p, q, w, 0, x, m)) \/ (x = i /\ m > a /\ Later(p, q, w, 0, 0, m - a)) BY <1>14
  <2>4. CASE j # 0 /\ Later(p, q, w, 0, j, k)
    <3>1. ~(x = i /\ m > a /\ Later(p, q, w, 0, 0, m - a)) BY <2>1, <2>4, <1>12
    <3> QED BY <2>1, <2>3, <2>4, <3>1
  <2>5. CASE j = i /\ k > a /\ Later(p, q, w, 0, 0, k - a)
    <3>1. ~(x # 0 /\ Later(p, q, w, 0, x, m)) BY <2>1, <2>5, <1>12
    <3>2. x = i /\ m > a /\ Later(p, q, w, 0, 0, m - a) BY <2>3, <3>1
    <3>3. k - a = m - a BY <2>1, <2>5, <3>2, <1>12
    <3> QED BY <2>5, <3>2, <3>3, <1>12
  <2> QED BY <2>2, <2>4, <2>5
<1>k. Strokes(p, u, <<>>, 0, t, d)
  <2> SUFFICES ASSUME Now(p), "failed" \notin t, "overtaken" \notin t, ~d PROVE Strokes(p, u, <<>>, 0, t, d)
    BY DEF Strokes
  <2>1. /\ Spots(p, q, w, 0) = {} /\ p.rev = server.rev => p.locals = server.local
        /\ p.depth > 0 =>
             /\ \A j, k \in Nat : LaterLocal(p, q, w, 0, j, k) => Item(q, w, j, k).value = p.locals
             /\ \A j \in DOMAIN q : Newest(p, q, j) =>
                  q[j].value = p.locals \/ \E x, m \in Nat : LaterLocal(p, q, w, 0, x, m)
    BY DEF InPage, Strokes
  <2>2. Spots(p, u, <<>>, 0) = {} => Spots(p, q, w, 0) = {}
    <3>1. ASSUME NEW j \in Nat, NEW k \in Nat, Spot(p, q, w, 0, j, k)
          PROVE  \E x, m \in Nat : Spot(p, u, <<>>, 0, x, m)
      <4>0. \A x, m \in Nat : Spot(p, u, <<>>, 0, x, m)
              <=> ((x # 0 /\ Spot(p, q, w, 0, x, m)) \/ (x = i /\ m > a /\ Spot(p, q, w, 0, 0, m - a)))
        BY <1>4 DEF Attached
      <4>1. CASE j = 0
        <5> DEFINE m == a + k
        <5>0. k > 0 BY <3>1, <4>1, <1>15
        <5>1. m \in Nat /\ m > a /\ m - a = k BY <5>0, <1>11
        <5> HIDE DEF m
        <5>2. Spot(p, u, <<>>, 0, i, m) BY <3>1, <4>1, <4>0, <5>1, <1>11
        <5> QED BY <5>1, <5>2, <1>11
      <4>2. CASE j # 0 BY <3>1, <4>0, <4>2
      <4> QED BY <4>1, <4>2
    <3> QED BY <3>1, NoSpots
  <2>3. ASSUME p.depth > 0, NEW j \in Nat, NEW k \in Nat, LaterLocal(p, u, <<>>, 0, j, k)
        PROVE  Item(u, <<>>, j, k).value = p.locals
    <3>1. Later(p, u, <<>>, 0, j, k) /\ Item(u, <<>>, j, k).type = "local" BY <2>3 DEF LaterLocal
    <3>2. CASE j # 0 /\ Later(p, q, w, 0, j, k)
      <4>1. Item(u, <<>>, j, k) = Item(q, w, j, k) BY <3>1, <3>2, <1>14
      <4> QED BY <4>1, <3>1, <3>2, <2>1, <2>3 DEF LaterLocal
    <3>3. CASE j = i /\ k > a /\ Later(p, q, w, 0, 0, k - a)
      <4>1. Item(u, <<>>, j, k) = Item(q, w, 0, k - a) BY <3>1, <3>3, <1>14
      <4> DEFINE m == k - a
      <4>2. m \in Nat BY <3>3, <1>12
      <4>3. LaterLocal(p, q, w, 0, 0, m) BY <4>1, <3>1, <3>3 DEF LaterLocal
      <4> HIDE DEF m
      <4>4. Item(q, w, 0, m).value = p.locals BY <4>2, <4>3, <2>1, <2>3
      <4> QED BY <4>1, <4>4 DEF m
    <3> QED BY <3>1, <3>2, <3>3, <1>14
  <2>4. ASSUME p.depth > 0, NEW j \in DOMAIN u, Newest(p, u, j)
        PROVE  u[j].value = p.locals \/ \E x, m \in Nat : LaterLocal(p, u, <<>>, 0, x, m)
    <3>1. \A x \in DOMAIN q : (LocalOf(u[x], p.sid) <=> LocalOf(q[x], p.sid)) /\ u[x].value = q[x].value
      BY <1>3 DEF Alike, LocalOf
    <3>2. j \in DOMAIN q /\ Newest(p, q, j) BY <2>4, <3>1, <1>3 DEF Newest
    <3>4. CASE \E x, m \in Nat : LaterLocal(p, q, w, 0, x, m)
      <4>1. PICK x \in Nat, m \in Nat : LaterLocal(p, q, w, 0, x, m) BY <3>4
      <4>2. Later(p, q, w, 0, x, m) /\ Item(q, w, x, m).type = "local" BY <4>1 DEF LaterLocal
      <4>3. CASE x = 0
        <5> DEFINE y == a + m
        <5>0. m > 0 BY <4>2, <4>3, <1>15
        <5>1. y \in Nat /\ y > a /\ y - a = m BY <5>0, <1>11
        <5> HIDE DEF y
        <5>2. Later(p, u, <<>>, 0, i, y) BY <4>2, <4>3, <5>1, <1>11, <1>14
        <5>3. Item(u, <<>>, i, y) = Item(q, w, 0, m) BY <5>1, <5>2, <1>11, <1>14
        <5> QED BY <5>1, <5>2, <5>3, <4>2, <4>3, <1>11 DEF LaterLocal
      <4>4. CASE x # 0
        <5>1. Later(p, u, <<>>, 0, x, m) BY <4>2, <4>4, <1>14
        <5>2. Item(u, <<>>, x, m) = Item(q, w, x, m) BY <5>1, <4>2, <4>4, <1>14
        <5> QED BY <5>1, <5>2, <4>2 DEF LaterLocal
      <4> QED BY <4>3, <4>4
    <3> QED BY <2>1, <2>4, <3>1, <3>2, <3>4
  <2> QED BY <2>1, <2>2, <2>3, <2>4 DEF Strokes
<1> QED BY <1>a, <1>b, <1>c, <1>d, <1>e, <1>f, <1>g, <1>h, <1>i, <1>j, <1>k DEF InPage, u

\* What depends on the photo of the page only.
LEMMA SameSid ==
  ASSUME NEW p, NEW r, r.sid = p.sid, NEW q, NEW w, NEW n
  PROVE  /\ Now(r) <=> Now(p)
         /\ Pending(r, q) = Pending(p, q) /\ (\A i : Values(r, q, i) = Values(p, q, i)) /\ Coming(r, q) = Coming(p, q)
         /\ Spots(r, q, w, n) = Spots(p, q, w, n) /\ Number(r, q, w, n) = Number(p, q, w, n)
         /\ \A i, k : Later(r, q, w, n, i, k) <=> Later(p, q, w, n, i, k)
         /\ \A i, k : LaterLocal(r, q, w, n, i, k) <=> LaterLocal(p, q, w, n, i, k)
         /\ \A i : Newest(r, q, i) <=> Newest(p, q, i)
<1>1. Pending(r, q) = Pending(p, q) BY DEF Pending
<1>2. (\A i : Values(r, q, i) = Values(p, q, i)) /\ Coming(r, q) = Coming(p, q) BY <1>1 DEF Values, Coming
<1>3. Spots(r, q, w, n) = Spots(p, q, w, n) /\ Number(r, q, w, n) = Number(p, q, w, n) BY SpotsOfSid
<1>4. \A i, k : Later(r, q, w, n, i, k) <=> Later(p, q, w, n, i, k) BY DEF Later
<1>5. \A i, k : LaterLocal(r, q, w, n, i, k) <=> LaterLocal(p, q, w, n, i, k) BY <1>4 DEF LaterLocal
<1>6. \A i : Newest(r, q, i) <=> Newest(p, q, i) BY DEF Newest
<1>7. Now(r) <=> Now(p) BY DEF Now
<1> QED BY <1>1, <1>2, <1>3, <1>4, <1>5, <1>6, <1>7

\* What each part of the invariant depends on.
LEMMA SameParts ==
  ASSUME NEW p, NEW r, r.sid = p.sid, NEW q, NEW w, NEW n, NEW t, NEW d
  PROVE  /\ Sessions(p, q, w, n) => Sessions(r, q, w, n)
         /\ r.gen = p.gen /\ r.dirty = p.dirty /\ r.adj = p.adj /\ Generations(p, q) => Generations(r, q)
         /\ r.rev = p.rev /\ r.dirty = p.dirty /\ r.adj = p.adj /\ Showing(p, q) => Showing(r, q)
         /\ r.dirty = p.dirty /\ r.adj = p.adj /\ Undos(p, q, w, n, t) => Undos(r, q, w, n, t)
         /\ r.dirty = p.dirty /\ r.adj = p.adj /\ Unsaved(p, q, t) => Unsaved(r, q, t)
         /\ (r.adj = p.adj /\ r.drags = p.drags /\ r.group = p.group /\ r.seq = p.seq /\ r.held = p.held
             /\ Gestures(p, q, w, n)) => Gestures(r, q, w, n)
         /\ (r.adj = p.adj /\ r.drags = p.drags /\ r.group = p.group /\ r.held = p.held
             /\ Dragged(p, q, w, n, t)) => Dragged(r, q, w, n, t)
         /\ r.depth = p.depth /\ Depths(p, q, w, n, t) => Depths(r, q, w, n, t)
         /\ Alone(p, q, w, n, t) => Alone(r, q, w, n, t)
         /\ r.rev = p.rev /\ r.locals = p.locals /\ r.depth = p.depth /\ Strokes(p, q, w, n, t, d)
            => Strokes(r, q, w, n, t, d)
<1>1. /\ Now(r) <=> Now(p)
      /\ Pending(r, q) = Pending(p, q) /\ (\A i : Values(r, q, i) = Values(p, q, i)) /\ Coming(r, q) = Coming(p, q)
      /\ Spots(r, q, w, n) = Spots(p, q, w, n) /\ Number(r, q, w, n) = Number(p, q, w, n)
      /\ \A i, k : Later(r, q, w, n, i, k) <=> Later(p, q, w, n, i, k)
      /\ \A i, k : LaterLocal(r, q, w, n, i, k) <=> LaterLocal(p, q, w, n, i, k)
      /\ \A i : Newest(r, q, i) <=> Newest(p, q, i)
  BY SameSid
<1>2. Sessions(p, q, w, n) => Sessions(r, q, w, n) BY DEF Sessions
<1>3. ASSUME r.gen = p.gen, r.dirty = p.dirty, r.adj = p.adj, Generations(p, q) PROVE Generations(r, q)
  BY <1>1, <1>3 DEF Generations
<1>4. ASSUME r.rev = p.rev, r.dirty = p.dirty, r.adj = p.adj, Showing(p, q) PROVE Showing(r, q)
  BY <1>1, <1>4 DEF Showing
<1>5. ASSUME r.dirty = p.dirty, r.adj = p.adj, Undos(p, q, w, n, t) PROVE Undos(r, q, w, n, t)
  BY <1>1, <1>5 DEF Undos, UndoOf
<1>6. ASSUME r.dirty = p.dirty, r.adj = p.adj, Unsaved(p, q, t) PROVE Unsaved(r, q, t)
  BY <1>1, <1>6 DEF Unsaved
<1>7. ASSUME r.adj = p.adj, r.drags = p.drags, r.group = p.group, r.seq = p.seq, r.held = p.held, Gestures(p, q, w, n)
      PROVE  Gestures(r, q, w, n)
  <2>1. Made(r) = Made(p) BY <1>7 DEF Made
  <2>2. \A c : Gone(r, c) <=> Gone(p, c) BY <1>7 DEF Gone
  <2> QED BY <1>7, <2>1, <2>2 DEF Gestures
<1>8. ASSUME r.adj = p.adj, r.drags = p.drags, r.group = p.group, r.held = p.held, Dragged(p, q, w, n, t)
      PROVE  Dragged(r, q, w, n, t)
  BY <1>1, <1>8 DEF Dragged
<1>9. ASSUME r.depth = p.depth, Depths(p, q, w, n, t) PROVE Depths(r, q, w, n, t)
  BY <1>1, <1>9 DEF Depths
<1>10. ASSUME Alone(p, q, w, n, t) PROVE Alone(r, q, w, n, t) BY <1>1, <1>10 DEF Alone
<1>11. ASSUME r.rev = p.rev, r.locals = p.locals, r.depth = p.depth, Strokes(p, q, w, n, t, d)
       PROVE  Strokes(r, q, w, n, t, d)
  BY <1>1, <1>11 DEF Strokes
<1> QED BY <1>2, <1>3, <1>4, <1>5, <1>6, <1>7, <1>8, <1>9, <1>10, <1>11

\* One less in hand.
LEMMA Shrinks ==
  ASSUME NEW p, NEW q \in Seq(Commands), NEW w \in Seq(Ends \cup Waiting), NEW n \in 1..Len(w), NEW t, NEW d
  PROVE  /\ Sessions(p, q, w, n - 1) => Sessions(p, q, w, n)
         /\ Undos(p, q, w, n - 1, t) => Undos(p, q, w, n, t)
         /\ Gestures(p, q, w, n - 1) => Gestures(p, q, w, n)
         /\ Alone(p, q, w, n - 1, t) => Alone(p, q, w, n, t)
         /\ n \in Hand(w, n - 1) /\ n \in DOMAIN w /\ n - 1 \in Nat
         /\ \A k : k \in Hand(w, n) => k \in Hand(w, n - 1)
<1>1. \A k : k \in Hand(w, n) => k \in Hand(w, n - 1) BY DEF Hand
<1>2. n \in Hand(w, n - 1) /\ n \in DOMAIN w /\ n - 1 \in Nat BY DEF Hand
<1>3. DropPlaced(p, p, q, w, n) BY DropPlaces
<1>4. Sessions(p, q, w, n - 1) => Sessions(p, q, w, n) BY <1>1 DEF Sessions
<1>5. Undos(p, q, w, n - 1, t) => Undos(p, q, w, n, t) BY <1>1 DEF Undos
<1>6. Gestures(p, q, w, n - 1) => Gestures(p, q, w, n) BY <1>1 DEF Gestures
<1>7. Alone(p, q, w, n - 1, t) => Alone(p, q, w, n, t) BY <1>3 DEF Alone, DropPlaced
<1> QED BY <1>1, <1>2, <1>4, <1>5, <1>6, <1>7

\* The first in hand is the end of a gesture.
LEMMA MoveEnd ==
  ASSUME NEW p, NEW q, NEW w, NEW n \in 1..Len(w), NEW t, NEW d, InPage(p, q, w, n - 1, t, d), w[n].type = "end",
         "failed" \in t \/ ~p.dirty
  PROVE  InPage([p EXCEPT !.group = IF @ = w[n].group THEN NoGroup ELSE @], q, w, n, t, d)
<1> DEFINE g == IF p.group = w[n].group THEN NoGroup ELSE p.group
           r == [p EXCEPT !.group = g]
<1>1. p \in Page /\ q \in Seq(Commands) /\ w \in Seq(Ends \cup Waiting) BY DEF InPage, Shaped
<1>2. n \in DOMAIN w /\ w[n] \in Ends \cup Waiting BY <1>1
<1>3. w[n].group \in Nat BY <1>2, WaitingIs
<1>4. p.group \in Nat /\ p.seq \in Nat /\ p.held \in BOOLEAN /\ p.depth \in Nat BY <1>1 DEF Page
<1>5. Gestures(p, q, w, n - 1) BY DEF InPage
<1>6. g \in Nat /\ g <= p.seq /\ (p.held => g = p.group)
  <2>1. n \in Hand(w, n - 1) BY <1>1, Shrinks
  <2>2. Gone(p, w[n]) BY <2>1, <1>5 DEF Gestures
  <2>3. p.group <= p.seq /\ (p.held => p.group = p.seq) BY <1>5 DEF Gestures
  <2>4. w[n].group <= p.seq /\ (p.held => w[n].group < p.seq) BY <2>2 DEF Gone
  <2> QED BY <2>3, <2>4, <1>3, <1>4 DEF NoGroup
<1> HIDE DEF g
<1>7. /\ r \in Page /\ r.dirty = p.dirty /\ r.sid = p.sid /\ r.rev = p.rev /\ r.adj = p.adj /\ r.locals = p.locals
      /\ r.gen = p.gen /\ r.held = p.held /\ r.group = g /\ r.seq = p.seq /\ r.depth = p.depth
      /\ r.drags = p.drags
  BY <1>1, <1>6 DEF Page
<1> HIDE DEF r
<1>8. /\ Sessions(p, q, w, n) /\ Undos(p, q, w, n, t) /\ Gestures(p, q, w, n) /\ Alone(p, q, w, n, t)
  BY <1>1, Shrinks DEF InPage
<1>9. ~LocalOf(w[n], p.sid) BY DEF LocalOf
<1>10. Number(p, q, w, n) = Number(p, q, w, n - 1) BY <1>1, <1>9, DropCount
<1>11. DropPlaced(p, p, q, w, n) BY <1>1, DropPlaces
<1>a. Shaped(r, q, w) BY <1>1, <1>7 DEF Shaped
<1>b. Sessions(r, q, w, n) BY <1>7, <1>8, SameParts
<1>c. Generations(r, q) BY <1>7, SameParts DEF InPage
<1>d. Showing(r, q) BY <1>7, SameParts DEF InPage
<1>e. Undos(r, q, w, n, t) BY <1>7, <1>8, SameParts
<1>f. Unsaved(r, q, t) BY <1>7, SameParts DEF InPage
<1>g. Gestures(r, q, w, n)
  <2>1. Made(r) = Made(p) BY <1>7 DEF Made
  <2>2. \A c : Gone(r, c) <=> Gone(p, c) BY <1>7 DEF Gone
  <2> QED BY <1>6, <1>7, <1>8, <2>1, <2>2 DEF Gestures
<1>h. Dragged(r, q, w, n, t)
  <2> SUFFICES ASSUME Now(p), "failed" \notin t PROVE Dragged(r, q, w, n, t)
    <3>1. Now(r) <=> Now(p) BY <1>7 DEF Now
    <3> QED BY <3>1 DEF Dragged
  <2>1. Unsaved(p, q, t) /\ Dragged(p, q, w, n - 1, t) BY DEF InPage
  <2>2. p.adj \subseteq server.ever \cup Coming(p, q) BY <2>1 DEF Unsaved
  <2>3. Pending(r, q) = Pending(p, q) /\ (\A i : Values(r, q, i) = Values(p, q, i)) /\ Coming(r, q) = Coming(p, q)
    BY <1>7, SameSid
  <2>4. \A i \in Pending(p, q) :
         \A e \in (q[i].value \cap DOMAIN p.drags) \ (server.ever \cup Values(p, q, i - 1)) :
           p.drags[e] \in {NoGroup, q[i].group}
    BY <2>1 DEF Dragged
  <2> QED BY <2>2, <2>3, <2>4, <1>7 DEF Dragged
<1>i. Depths(r, q, w, n, t)
  <2>1. Depths(p, q, w, n - 1, t) BY DEF InPage
  <2>2. MineHand(w, n - 1, p.sid) => MineHand(w, n, p.sid) BY <1>1, Shrinks DEF MineHand
  <2>3. Depths(p, q, w, n, t) BY <2>1, <2>2, <1>10 DEF Depths
  <2> QED BY <2>3, <1>7, SameParts
<1>j. Alone(r, q, w, n, t) BY <1>7, <1>8, SameParts
<1>k. Strokes(r, q, w, n, t, d)
  <2>0. \A i, k \in Nat : Spot(p, q, w, n - 1, i, k) => Spot(p, q, w, n, i, k)
    <3> SUFFICES ASSUME NEW i \in Nat, NEW k \in Nat, Spot(p, q, w, n - 1, i, k) PROVE Spot(p, q, w, n, i, k) OBVIOUS
    <3>1. ~(i = 0 /\ k = n) BY <1>9, <1>11 DEF DropPlaced
    <3> QED BY <3>1, <1>11 DEF DropPlaced
  <2>1. Spots(p, q, w, n) = {} => Spots(p, q, w, n - 1) = {} BY <2>0, NoSpots
  <2>2. \A i, k \in Nat : LaterLocal(p, q, w, n, i, k) <=> LaterLocal(p, q, w, n - 1, i, k)
    <3> SUFFICES ASSUME NEW i \in Nat, NEW k \in Nat
                 PROVE  LaterLocal(p, q, w, n, i, k) <=> LaterLocal(p, q, w, n - 1, i, k)
      OBVIOUS
    <3>1. ~Later(p, q, w, n - 1, 0, n)
      <4>1. ~Goes(w[n], p.sid) BY DEF Goes
      <4> QED BY <4>1, <1>11 DEF DropPlaced
    <3>2. Later(p, q, w, n, i, k) <=> Later(p, q, w, n - 1, i, k) BY <3>1, <1>11 DEF DropPlaced
    <3> QED BY <3>2 DEF LaterLocal
  <2>3. Strokes(p, q, w, n - 1, t, d) BY DEF InPage
  <2>4. Strokes(p, q, w, n, t, d) BY <2>1, <2>2, <2>3 DEF Strokes
  <2> QED BY <2>4, <1>7, SameParts
<1> QED BY <1>a, <1>b, <1>c, <1>d, <1>e, <1>f, <1>g, <1>h, <1>i, <1>j, <1>k DEF InPage, r, g

\* The page forgets a local command.
LEMMA ForgetIs ==
  ASSUME NEW p \in Page, NEW c
  PROVE  LET r == Forget(p, c)
         IN /\ r \in Page /\ r.dirty = p.dirty /\ r.sid = p.sid /\ r.rev = p.rev /\ r.adj = p.adj
            /\ r.locals = p.locals /\ r.gen = p.gen /\ r.held = p.held /\ r.group = p.group /\ r.seq = p.seq
            /\ r.drags = p.drags /\ r.depth \in Nat /\ p.depth \in Nat
            /\ c.type = "local" => r.depth = (IF p.depth = 0 THEN 0 ELSE p.depth - 1)
            /\ c.type # "local" => r.depth = p.depth /\ r = p
<1> DEFINE e == IF p.depth = 0 THEN 0 ELSE p.depth - 1
           s == [p EXCEPT !.depth = e]
<1>1. p.depth \in Nat BY DEF Page
<1>2. e \in Nat BY <1>1
<1> HIDE DEF e
<1>3. /\ s \in Page /\ s.dirty = p.dirty /\ s.sid = p.sid /\ s.rev = p.rev /\ s.adj = p.adj /\ s.locals = p.locals
      /\ s.gen = p.gen /\ s.held = p.held /\ s.group = p.group /\ s.seq = p.seq /\ s.drags = p.drags /\ s.depth = e
  BY <1>2 DEF Page
<1>4. Forget(p, c) = IF c.type = "local" THEN s ELSE p BY DEF Forget, e
<1> HIDE DEF s
<1>5. CASE c.type = "local" BY <1>1, <1>2, <1>3, <1>4, <1>5 DEF e
<1>6. CASE c.type # "local" BY <1>1, <1>4, <1>6
<1> QED BY <1>5, <1>6

\* The first in hand is dropped, after a failure.
LEMMA MoveDrop ==
  ASSUME NEW p, NEW q, NEW w, NEW n \in 1..Len(w), NEW t, NEW d, InPage(p, q, w, n - 1, t, d), w[n].type # "end",
         "failed" \in t
  PROVE  InPage(Forget(p, w[n]), q, w, n, t, d)
<1> DEFINE r == Forget(p, w[n])
<1>1. p \in Page /\ q \in Seq(Commands) /\ w \in Seq(Ends \cup Waiting) BY DEF InPage, Shaped
<1>2. n \in DOMAIN w /\ w[n] \in Ends \cup Waiting BY <1>1
<1>7. /\ r \in Page /\ r.dirty = p.dirty /\ r.sid = p.sid /\ r.rev = p.rev /\ r.adj = p.adj /\ r.locals = p.locals
      /\ r.gen = p.gen /\ r.held = p.held /\ r.group = p.group /\ r.seq = p.seq /\ r.drags = p.drags
      /\ r.depth \in Nat /\ p.depth \in Nat
      /\ w[n].type = "local" => r.depth = (IF p.depth = 0 THEN 0 ELSE p.depth - 1)
      /\ w[n].type # "local" => r.depth = p.depth
  BY <1>1, ForgetIs
<1> HIDE DEF r
<1>8. /\ Sessions(p, q, w, n) /\ Undos(p, q, w, n, t) /\ Gestures(p, q, w, n) /\ Alone(p, q, w, n, t)
  BY <1>1, Shrinks DEF InPage
<1>a. Shaped(r, q, w) BY <1>1, <1>7 DEF Shaped
<1>b. Sessions(r, q, w, n) BY <1>7, <1>8, SameParts
<1>c. Generations(r, q) BY <1>7, SameParts DEF InPage
<1>d. Showing(r, q) BY <1>7, SameParts DEF InPage
<1>e. Undos(r, q, w, n, t) BY DEF Undos
<1>f. Unsaved(r, q, t) BY DEF Unsaved
<1>g. Gestures(r, q, w, n) BY <1>7, <1>8, SameParts
<1>h. Dragged(r, q, w, n, t) BY DEF Dragged
<1>i. Depths(r, q, w, n, t)
  <2>1. Depths(p, q, w, n - 1, t) BY DEF InPage
  <2>2. n \in Hand(w, n - 1) /\ \A k : k \in Hand(w, n) => k \in Hand(w, n - 1) BY <1>1, Shrinks
  <2>3. MineHand(w, n - 1, p.sid) => MineHand(w, n, p.sid) /\ (w[n].type = "local" => w[n].sid = p.sid)
    BY <2>2 DEF MineHand
  <2>4. /\ Number(r, q, w, n) \in Nat /\ Number(p, q, w, n - 1) \in Nat
        /\ LocalOf(w[n], p.sid) => Number(p, q, w, n - 1) = Number(r, q, w, n) + 1
        /\ ~LocalOf(w[n], p.sid) => Number(p, q, w, n - 1) = Number(r, q, w, n)
    BY <1>1, <1>7, DropCount
  <2>5. LocalOf(w[n], p.sid) <=> w[n].type = "local" /\ w[n].sid = p.sid BY DEF LocalOf
  <2>6. r.depth <= Number(r, q, w, n) BY <2>1, <2>4, <2>5, <1>7 DEF Depths
  <2>7. ASSUME "inherited" \notin t PROVE r.depth = Number(r, q, w, n) /\ Mine(q, r.sid) /\ MineHand(w, n, r.sid)
    <3>1. p.depth = Number(p, q, w, n - 1) /\ Mine(q, p.sid) /\ MineHand(w, n - 1, p.sid) BY <2>1, <2>7 DEF Depths
    <3> QED BY <3>1, <2>3, <2>4, <2>5, <1>7
  <2> QED BY <2>6, <2>7 DEF Depths
<1>j. Alone(r, q, w, n, t) BY <1>7, <1>8, SameParts
<1>k. Strokes(r, q, w, n, t, d) BY DEF Strokes
<1> QED BY <1>a, <1>b, <1>c, <1>d, <1>e, <1>f, <1>g, <1>h, <1>i, <1>j, <1>k DEF InPage, r

\* The first in hand is queued.
LEMMA MoveAppend ==
  ASSUME NEW p, NEW q, NEW w, NEW n \in 1..Len(w), NEW t, NEW d, InPage(p, q, w, n - 1, t, d), w[n].type # "end",
         ~p.dirty, w[n].sid = p.sid
  PROVE  InPage(p, Append(q, w[n]), w, n, t, d)
<1> DEFINE c == w[n]
           u == Append(q, c)
           l == Len(q) + 1
<1>1. p \in Page /\ q \in Seq(Commands) /\ w \in Seq(Ends \cup Waiting) BY DEF InPage, Shaped
<1>20. n \in DOMAIN w /\ c \in Ends \cup Waiting BY <1>1
<1>2. /\ c \in Waiting /\ c \in Commands /\ c.type \in {"local", "undo", "redo"} /\ c.after = <<>> /\ c.sid \in Nat
      /\ c.type # "global"
  BY <1>20, WaitingIs
<1>3. DOMAIN c.after = {} BY <1>2
<1>4. /\ u \in Seq(Commands) /\ Len(q) \in Nat /\ Len(u) = l /\ u[l] = c /\ l \in DOMAIN u /\ l \notin DOMAIN q
      /\ \A i \in DOMAIN q : i \in Nat /\ i > 0 /\ i <= Len(q) /\ i \in DOMAIN u /\ u[i] = q[i]
      /\ \A i \in DOMAIN u : i \in DOMAIN q \/ i = l
  BY <1>1, <1>2, PushIs
<1>5. AppendPlaced(p, q, w, n, u, l) BY <1>1, <1>2, AppendPlaces
<1>6. Number(p, u, w, n) = Number(p, q, w, n - 1) BY <1>1, <1>2, AppendCount
<1>7. /\ \A i : i \in Pending(p, u) <=> i \in Pending(p, q)
      /\ \A i \in 0..Len(q) : Values(p, u, i) = Values(p, q, i)
      /\ Values(p, u, l) = Coming(p, u)
      /\ \A x : x \in Coming(p, u) <=> x \in Coming(p, q)
  BY <1>1, <1>2, PushValues
<1>8. n \in Hand(w, n - 1) /\ \A k : k \in Hand(w, n) => k \in Hand(w, n - 1) BY <1>1, Shrinks
<1>9. Pending(p, u) = Pending(p, q) /\ Coming(p, u) = Coming(p, q) BY <1>7
<1>10. l \in Nat /\ l # 0 /\ (\A i \in DOMAIN q : i < l /\ i # 0 /\ i \in 0..Len(q)) /\ n \in Nat BY <1>4
<1> HIDE DEF u, l
<1>a. Shaped(p, u, w) BY <1>1, <1>4 DEF Shaped
<1>b. Sessions(p, u, w, n)
  <2>1. Sessions(p, q, w, n - 1) BY DEF InPage
  <2>2. c.sid <= p.sid BY <1>2
  <2>3. \A i \in DOMAIN u : u[i].sid <= p.sid BY <2>1, <2>2, <1>4 DEF Sessions
  <2>4. \A i \in DOMAIN u : \A k \in DOMAIN u[i].after : u[i].after[k].type # "end" => u[i].after[k].sid = u[i].sid
    <3> SUFFICES ASSUME NEW i \in DOMAIN u, NEW k \in DOMAIN u[i].after, u[i].after[k].type # "end"
                 PROVE  u[i].after[k].sid = u[i].sid
      OBVIOUS
    <3>1. CASE i = l BY <3>1, <1>3, <1>4
    <3>2. CASE i # l BY <3>2, <1>4, <2>1 DEF Sessions
    <3> QED BY <3>1, <3>2
  <2> QED BY <2>1, <2>3, <2>4, <1>8 DEF Sessions
<1>c. Generations(p, u)
  <2>1. \A i \in Pending(p, q) : u[i] = q[i] BY <1>4 DEF Pending
  <2> QED BY <2>1, <1>9 DEF InPage, Generations
<1>d. Showing(p, u) BY <1>9 DEF InPage, Showing
<1>e. Undos(p, u, w, n, t)
  <2> SUFFICES ASSUME Now(p), "failed" \notin t
               PROVE  /\ \A i \in DOMAIN u :
                          /\ UndoOf(u[i], p.sid) => u[i].seen \subseteq server.ever \cup Values(p, u, i)
                          /\ \A k \in DOMAIN u[i].after :
                               UndoOf(u[i].after[k], p.sid) => u[i].after[k].seen \subseteq server.ever \cup Values(p, u, i)
                      /\ \A k \in Hand(w, n) : UndoOf(w[k], p.sid) => w[k].seen \subseteq server.ever \cup Coming(p, u)
    BY DEF Undos
  <2>1. Undos(p, q, w, n - 1, t) BY DEF InPage
  <2>2. \A k \in Hand(w, n - 1) : UndoOf(w[k], p.sid) => w[k].seen \subseteq server.ever \cup Coming(p, q)
    BY <2>1 DEF Undos
  <2>3. ASSUME NEW i \in DOMAIN u
        PROVE  /\ UndoOf(u[i], p.sid) => u[i].seen \subseteq server.ever \cup Values(p, u, i)
               /\ \A k \in DOMAIN u[i].after :
                    UndoOf(u[i].after[k], p.sid) => u[i].after[k].seen \subseteq server.ever \cup Values(p, u, i)
    <3>1. CASE i = l
      <4>1. u[i] = c /\ Values(p, u, i) = Coming(p, q) BY <3>1, <1>4, <1>7, <1>9
      <4>2. UndoOf(c, p.sid) => c.seen \subseteq server.ever \cup Coming(p, q) BY <2>2, <1>8
      <4> QED BY <4>1, <4>2, <1>3
    <3>2. CASE i # l
      <4>1. i \in DOMAIN q /\ u[i] = q[i] BY <3>2, <1>4
      <4>2. Values(p, u, i) = Values(p, q, i) BY <4>1, <1>7, <1>10
      <4> QED BY <4>1, <4>2, <2>1 DEF Undos
    <3> QED BY <3>1, <3>2
  <2>4. \A k \in Hand(w, n) : UndoOf(w[k], p.sid) => w[k].seen \subseteq server.ever \cup Coming(p, u)
    BY <2>2, <1>8, <1>9
  <2> QED BY <2>3, <2>4
<1>f. Unsaved(p, u, t) BY <1>9 DEF InPage, Unsaved
<1>g. Gestures(p, u, w, n)
  <2>1. Gestures(p, q, w, n - 1) BY DEF InPage
  <2>4. \A i \in DOMAIN u : u[i].type = "global" => u[i].value \subseteq Made(p) BY <2>1, <1>2, <1>4 DEF Gestures
  <2>5. \A i \in DOMAIN u : \A k \in DOMAIN u[i].after : Gone(p, u[i].after[k])
    <3> SUFFICES ASSUME NEW i \in DOMAIN u, NEW k \in DOMAIN u[i].after PROVE Gone(p, u[i].after[k]) OBVIOUS
    <3>1. CASE i = l BY <3>1, <1>3, <1>4
    <3>2. CASE i # l BY <3>2, <2>1, <1>4 DEF Gestures
    <3> QED BY <3>1, <3>2
  <2> QED BY <2>1, <2>4, <2>5, <1>8 DEF Gestures
<1>h. Dragged(p, u, w, n, t)
  <2> SUFFICES ASSUME Now(p), "failed" \notin t PROVE Dragged(p, u, w, n, t) BY DEF Dragged
  <2>1. Dragged(p, q, w, n - 1, t) /\ Unsaved(p, q, t) BY DEF InPage
  <2>2. p.adj \subseteq server.ever \cup Coming(p, u) BY <2>1, <1>9 DEF Unsaved
  <2>3. ASSUME NEW i \in Pending(p, u), NEW e \in (u[i].value \cap DOMAIN p.drags) \ (server.ever \cup Values(p, u, i - 1))
        PROVE  p.drags[e] \in {NoGroup, u[i].group}
    <3>1. i \in Pending(p, q) /\ i \in DOMAIN q BY <1>9 DEF Pending
    <3>2. u[i] = q[i] /\ i \in Nat /\ i > 0 /\ i <= Len(q) BY <3>1, <1>4
    <3>3. i - 1 \in 0..Len(q) BY <3>2, <1>4
    <3>4. Values(p, u, i - 1) = Values(p, q, i - 1) BY <3>3, <1>7
    <3> QED BY <3>1, <3>2, <3>4, <2>1, <2>3 DEF Dragged
  <2> QED BY <2>2, <2>3 DEF Dragged
<1>i. Depths(p, u, w, n, t)
  <2>1. Depths(p, q, w, n - 1, t) BY DEF InPage
  <2>2. "inherited" \notin t => Mine(u, p.sid)
    <3> SUFFICES ASSUME "inherited" \notin t, NEW i \in DOMAIN u
                 PROVE  /\ u[i].type = "local" => u[i].sid = p.sid
                        /\ \A k \in DOMAIN u[i].after : u[i].after[k].type = "local" => u[i].after[k].sid = p.sid
      BY DEF Mine
    <3>1. CASE i = l BY <3>1, <1>3, <1>4
    <3>2. CASE i # l BY <3>2, <2>1, <1>4 DEF Depths, Mine
    <3> QED BY <3>1, <3>2
  <2>3. MineHand(w, n - 1, p.sid) => MineHand(w, n, p.sid) BY <1>8 DEF MineHand
  <2> QED BY <2>1, <2>2, <2>3, <1>6 DEF Depths
<1>11. \A i, k \in Nat : Later(p, u, w, n, i, k) <=> (i # l /\ ~(i = 0 /\ k = n) /\ Later(p, q, w, n - 1, i, k))
  BY <1>5 DEF AppendPlaced
<1>12. \A i, k \in Nat : Later(p, u, w, n, i, k) => Item(u, w, i, k) = Item(q, w, i, k) BY <1>5 DEF AppendPlaced
<1>j. Alone(p, u, w, n, t)
  <2>1. Alone(p, q, w, n - 1, t) BY DEF InPage
  <2> QED BY <2>1, <1>11 DEF Alone
<1>k. Strokes(p, u, w, n, t, d)
  <2> SUFFICES ASSUME Now(p), "failed" \notin t, "overtaken" \notin t, ~d PROVE Strokes(p, u, w, n, t, d)
    BY DEF Strokes
  <2>1. /\ Spots(p, q, w, n - 1) = {} /\ p.rev = server.rev => p.locals = server.local
        /\ p.depth > 0 =>
             /\ \A i, k \in Nat : LaterLocal(p, q, w, n - 1, i, k) => Item(q, w, i, k).value = p.locals
             /\ \A i \in DOMAIN q : Newest(p, q, i) =>
                  q[i].value = p.locals \/ \E j, m \in Nat : LaterLocal(p, q, w, n - 1, j, m)
    BY DEF InPage, Strokes
  <2>2. Spots(p, u, w, n) = {} => Spots(p, q, w, n - 1) = {}
    <3>1. ASSUME NEW i \in Nat, NEW k \in Nat, Spot(p, q, w, n - 1, i, k)
          PROVE  \E j, m \in Nat : Spot(p, u, w, n, j, m)
      <4>1. \A j, m \in Nat : Spot(p, u, w, n, j, m)
              <=> ((j = l /\ m = 0 /\ Spot(p, q, w, n - 1, 0, n))
                   \/ (j # l /\ ~(j = 0 /\ m = n) /\ Spot(p, q, w, n - 1, j, m)))
        BY <1>5 DEF AppendPlaced
      <4>2. CASE i = 0 /\ k = n BY <3>1, <4>1, <4>2, <1>10
      <4>3. CASE ~(i = 0 /\ k = n)
        <5>1. i # l
          <6>1. i \in DOMAIN q \/ i = 0 BY <3>1 DEF Spot
          <6> QED BY <6>1, <1>4, <1>10
        <5> QED BY <3>1, <4>1, <4>3, <5>1
      <4> QED BY <4>2, <4>3
    <3> QED BY <3>1, NoSpots
  <2>3. ASSUME p.depth > 0, NEW i \in Nat, NEW k \in Nat, LaterLocal(p, u, w, n, i, k)
        PROVE  Item(u, w, i, k).value = p.locals
    <3>1. Later(p, u, w, n, i, k) /\ Item(u, w, i, k).type = "local" BY <2>3 DEF LaterLocal
    <3>2. Item(u, w, i, k) = Item(q, w, i, k) BY <3>1, <1>12
    <3>3. LaterLocal(p, q, w, n - 1, i, k) BY <3>1, <3>2, <1>11 DEF LaterLocal
    <3> QED BY <3>2, <3>3, <2>1, <2>3
  <2>4. ASSUME p.depth > 0, NEW i \in DOMAIN u, Newest(p, u, i)
        PROVE  u[i].value = p.locals \/ \E j, m \in Nat : LaterLocal(p, u, w, n, j, m)
    <3>1. CASE i = l
      <4>1. c.type = "local" BY <2>4, <3>1, <1>4 DEF Newest, LocalOf
      <4>2. Later(p, q, w, n - 1, 0, n)
        <5>1. Goes(c, p.sid) BY <1>2 DEF Goes
        <5> QED BY <5>1, <1>8 DEF Later
      <4>3. Item(q, w, 0, n) = c BY DEF Item
      <4>4. LaterLocal(p, q, w, n - 1, 0, n) BY <4>1, <4>2, <4>3 DEF LaterLocal
      <4>5. c.value = p.locals BY <4>3, <4>4, <2>1, <2>4, <1>10
      <4> QED BY <3>1, <4>5, <1>4
    <3>2. CASE i # l
      <4>1. i \in DOMAIN q /\ u[i] = q[i] /\ i < l BY <3>2, <1>4, <1>10
      <4>2. ~LocalOf(c, p.sid) BY <2>4, <4>1, <1>4 DEF Newest
      <4>3. Newest(p, q, i) BY <2>4, <4>1, <1>4 DEF Newest
      <4>4. CASE \E j, m \in Nat : LaterLocal(p, q, w, n - 1, j, m)
        <5>1. PICK j \in Nat, m \in Nat : LaterLocal(p, q, w, n - 1, j, m) BY <4>4
        <5>2. Later(p, q, w, n - 1, j, m) /\ Item(q, w, j, m).type = "local" BY <5>1 DEF LaterLocal
        <5>3. ~(j = 0 /\ m = n)
          <6>1. Item(q, w, 0, n) = c BY DEF Item
          <6>2. c.type # "local" BY <4>2, <1>2 DEF LocalOf
          <6> QED BY <5>2, <6>1, <6>2
        <5>4. j # l
          <6>1. j \in DOMAIN q \/ j = 0 BY <5>2 DEF Later
          <6> QED BY <6>1, <1>4, <1>10
        <5>5. Later(p, u, w, n, j, m) BY <5>2, <5>3, <5>4, <1>11
        <5>6. Item(u, w, j, m) = Item(q, w, j, m) BY <5>5, <1>12
        <5> QED BY <5>2, <5>5, <5>6 DEF LaterLocal
      <4> QED BY <2>1, <2>4, <4>1, <4>3, <4>4
    <3> QED BY <3>1, <3>2
  <2> QED BY <2>1, <2>2, <2>3, <2>4 DEF Strokes
<1> QED BY <1>a, <1>b, <1>c, <1>d, <1>e, <1>f, <1>g, <1>h, <1>i, <1>j, <1>k DEF InPage, u

\* What a save that is finished leaves of the page, and of the queue.
SamePage(p, r) ==
  /\ r.sid = p.sid /\ r.rev = p.rev /\ r.adj = p.adj /\ r.locals = p.locals /\ r.gen = p.gen /\ r.seq = p.seq
  /\ r.held = p.held /\ r.drags = p.drags

\* The queue holds the same commands, and maybe more.
Ahead(q, u) == \A i \in DOMAIN q : i \in DOMAIN u /\ Alike(u[i], q[i])

LEMMA AheadSelf == ASSUME NEW q PROVE Ahead(q, q)
BY DEF Ahead, Alike

LEMMA AheadAppend ==
  ASSUME NEW q, NEW u \in Seq(Commands), NEW c \in Commands, Ahead(q, u)
  PROVE  Ahead(q, Append(u, c))
<1>1. \A i \in DOMAIN u : i \in DOMAIN Append(u, c) /\ Append(u, c)[i] = u[i] BY PushIs
<1> QED BY <1>1 DEF Ahead, Alike

\* A hand that is used up.
LEMMA MoveEmptied ==
  ASSUME NEW p, NEW q, NEW w, NEW t, NEW d, InPage(p, q, w, Len(w), t, d)
  PROVE  InPage(p, q, <<>>, 0, t, d)
<1>1. p \in Page /\ q \in Seq(Commands) /\ w \in Seq(Ends \cup Waiting) BY DEF InPage, Shaped
<1>2. Hand(w, Len(w)) = {} BY <1>1, HandOfAll
<1>3. Hand(<<>>, 0) = {} BY HandOfNone
<1> DEFINE n == Len(w)
<1>4. Emptied(p, q, w, n) BY <1>1, EmptyHand
<1> HIDE DEF n
<1>5. Hand(w, n) = {} BY <1>2 DEF n
<1>6. InPage(p, q, w, n, t, d) BY DEF n
<1>a. Shaped(p, q, <<>>) BY <1>1 DEF Shaped
<1>b. Sessions(p, q, <<>>, 0) BY <1>3, <1>6 DEF InPage, Sessions
<1>e. Undos(p, q, <<>>, 0, t) BY <1>3, <1>6 DEF InPage, Undos
<1>g. Gestures(p, q, <<>>, 0) BY <1>3, <1>6 DEF InPage, Gestures
<1>h. Dragged(p, q, <<>>, 0, t)
  <2>1. ~EndWaits(w, n) BY <1>5 DEF EndWaits
  <2> QED BY <2>1, <1>6 DEF InPage, Dragged
<1>i. Depths(p, q, <<>>, 0, t)
  <2>1. MineHand(<<>>, 0, p.sid) BY <1>3 DEF MineHand
  <2>2. Number(p, q, w, n) = Number(p, q, <<>>, 0) BY <1>4 DEF Emptied
  <2> QED BY <2>1, <2>2, <1>6 DEF InPage, Depths
<1>7. \A i, k \in Nat : Later(p, q, w, n, i, k) <=> Later(p, q, <<>>, 0, i, k) BY <1>4 DEF Emptied
<1>j. Alone(p, q, <<>>, 0, t) BY <1>6, <1>7 DEF InPage, Alone
<1>8. \A i, k \in Nat : LaterLocal(p, q, <<>>, 0, i, k)
         <=> (LaterLocal(p, q, w, n, i, k) /\ Item(q, <<>>, i, k) = Item(q, w, i, k))
  <2> SUFFICES ASSUME NEW i \in Nat, NEW k \in Nat
               PROVE  LaterLocal(p, q, <<>>, 0, i, k)
                      <=> (LaterLocal(p, q, w, n, i, k) /\ Item(q, <<>>, i, k) = Item(q, w, i, k))
    OBVIOUS
  <2>1. Later(p, q, <<>>, 0, i, k) => i # 0 BY <1>4 DEF Emptied
  <2>2. i # 0 => Item(q, <<>>, i, k) = Item(q, w, i, k) BY DEF Item
  <2> QED BY <2>1, <2>2, <1>7 DEF LaterLocal
<1>9. \A i, k \in Nat : LaterLocal(p, q, w, n, i, k) => LaterLocal(p, q, <<>>, 0, i, k)
  <2> SUFFICES ASSUME NEW i \in Nat, NEW k \in Nat, LaterLocal(p, q, w, n, i, k)
               PROVE  LaterLocal(p, q, <<>>, 0, i, k)
    OBVIOUS
  <2>0. Later(p, q, <<>>, 0, i, k) BY <1>7 DEF LaterLocal
  <2>1. i # 0 BY <2>0, <1>4 DEF Emptied
  <2>2. Item(q, <<>>, i, k) = Item(q, w, i, k) BY <2>1 DEF Item
  <2> QED BY <2>0, <2>2 DEF LaterLocal
<1>k. Strokes(p, q, <<>>, 0, t, d)
  <2>1. Spots(p, q, w, n) = Spots(p, q, <<>>, 0) BY <1>4 DEF Emptied
  <2>2. Strokes(p, q, w, n, t, d) BY <1>6 DEF InPage
  <2> SUFFICES ASSUME Now(p), "failed" \notin t, "overtaken" \notin t, ~d PROVE Strokes(p, q, <<>>, 0, t, d)
    BY DEF Strokes
  <2>3. p.depth > 0 => \A i, k \in Nat : LaterLocal(p, q, <<>>, 0, i, k) => Item(q, <<>>, i, k).value = p.locals
    BY <2>2, <1>8 DEF Strokes
  <2>4. p.depth > 0 => \A i \in DOMAIN q : Newest(p, q, i) =>
            q[i].value = p.locals \/ \E j, l \in Nat : LaterLocal(p, q, <<>>, 0, j, l)
    BY <2>2, <1>9 DEF Strokes
  <2> QED BY <2>1, <2>2, <2>3, <2>4 DEF Strokes
<1> QED BY <1>6, <1>a, <1>b, <1>e, <1>g, <1>h, <1>i, <1>j, <1>k DEF InPage

\* A step of Resume.
GoesOn(p, q, w, applied, s) ==
  /\ w.type = "end" => s = [page |-> [p EXCEPT !.group = IF @ = w.group THEN NoGroup ELSE @], queue |-> q]
  /\ w.type # "end" /\ applied /\ w.sid = p.sid /\ ~p.dirty => s = [page |-> p, queue |-> Append(q, w)]
  /\ w.type # "end" /\ ~(applied /\ w.sid = p.sid /\ ~p.dirty) => s = [page |-> Forget(p, w), queue |-> q]

LEMMA ResumedIs ==
  ASSUME NEW p, NEW q, NEW w, NEW applied, NEW at, at.page = p, at.queue = q, at = [page |-> p, queue |-> q]
  PROVE  GoesOn(p, q, w, applied, Resumed(at, w, applied))
<1> DEFINE g == [p EXCEPT !.group = IF @ = w.group THEN NoGroup ELSE @]
           u == Append(q, w)
           f == Forget(p, w)
<1>1. w.type = "end" => Resumed(at, w, applied) = [at EXCEPT !.page = g] BY DEF Resumed
<1>2. w.type # "end" /\ applied /\ w.sid = p.sid /\ ~p.dirty => Resumed(at, w, applied) = [at EXCEPT !.queue = u]
  BY DEF Resumed
<1>3. w.type # "end" /\ ~(applied /\ w.sid = p.sid /\ ~p.dirty) => Resumed(at, w, applied) = [at EXCEPT !.page = f]
  BY DEF Resumed
<1> HIDE DEF g, u, f
<1>4. /\ [at EXCEPT !.page = g] = [page |-> g, queue |-> q]
      /\ [at EXCEPT !.queue = u] = [page |-> p, queue |-> u]
      /\ [at EXCEPT !.page = f] = [page |-> f, queue |-> q]
  OBVIOUS
<1> QED BY <1>1, <1>2, <1>3, <1>4 DEF g, u, f, GoesOn

\* All of Resume.
ResumeTo(p, q, t, d, s) ==
  /\ InPage(s.page, s.queue, <<>>, 0, t, d)
  /\ SamePage(p, s.page)
  /\ Ahead(q, s.queue)
  /\ s.page.dirty = p.dirty

LEMMA MoveResume ==
  ASSUME NEW p, NEW q, NEW w, NEW t, NEW d, NEW applied, InPage(p, q, w, 0, t, d),
         "failed" \in t \/ (applied /\ ~p.dirty /\ \A k \in DOMAIN w : w[k].type # "end" => w[k].sid = p.sid)
  PROVE  ResumeTo(p, q, t, d, Resume(p, q, w, applied))
<1> DEFINE Fit(at, n) == /\ InPage(at.page, at.queue, w, n, t, d) /\ SamePage(p, at.page)
                         /\ Ahead(q, at.queue) /\ at.page.dirty = p.dirty
           Pairs == [page : Page, queue : Seq(Commands)]
           Good == [n \in 0..Len(w) |-> {at \in Pairs : Fit(at, n)}]
<1>1. p \in Page /\ q \in Seq(Commands) /\ w \in Seq(Ends \cup Waiting) BY DEF InPage, Shaped
<1>2. Len(w) \in Nat /\ DOMAIN w = 1..Len(w) BY <1>1
<1>3. \A n \in 0..Len(w) : \A at : at \in Good[n] <=> (at \in Pairs /\ Fit(at, n)) OBVIOUS
<1>4. [page |-> p, queue |-> q] \in Good[0]
  <2> DEFINE at == [page |-> p, queue |-> q]
  <2>1. at \in Pairs /\ at.page = p /\ at.queue = q BY <1>1
  <2>2. SamePage(p, p) /\ Ahead(q, q) BY AheadSelf DEF SamePage
  <2> HIDE DEF at
  <2>3. Fit(at, 0) BY <2>1, <2>2
  <2> QED BY <2>1, <2>3, <1>2, <1>3 DEF at
<1> HIDE DEF Good
<1>5. ASSUME NEW n \in 1..Len(w), NEW at \in Good[n - 1] PROVE Resumed(at, w[n], applied) \in Good[n]
  <2>1. n - 1 \in 0..Len(w) /\ n \in 0..Len(w) BY <1>2
  <2>2. at \in Pairs /\ Fit(at, n - 1) BY <1>3, <2>1
  <2> DEFINE r == at.page
             u == at.queue
  <2>3. at = [page |-> r, queue |-> u] /\ r \in Page /\ u \in Seq(Commands) BY <2>2
  <2>4. /\ InPage(r, u, w, n - 1, t, d) /\ SamePage(p, r) /\ Ahead(q, u) /\ r.dirty = p.dirty BY <2>2
  <2>5. /\ w[n].type = "end" => Resumed(at, w[n], applied)
              = [page |-> [r EXCEPT !.group = IF @ = w[n].group THEN NoGroup ELSE @], queue |-> u]
        /\ w[n].type # "end" /\ applied /\ w[n].sid = r.sid /\ ~r.dirty
              => Resumed(at, w[n], applied) = [page |-> r, queue |-> Append(u, w[n])]
        /\ w[n].type # "end" /\ ~(applied /\ w[n].sid = r.sid /\ ~r.dirty)
              => Resumed(at, w[n], applied) = [page |-> Forget(r, w[n]), queue |-> u]
    <3> DEFINE v == w[n]
    <3> HIDE DEF r, u, v
    <3>1. at.page = r /\ at.queue = u BY <2>3 DEF r, u
    <3>2. GoesOn(r, u, v, applied, Resumed(at, v, applied)) BY <3>1, <2>3, ResumedIs
    <3> QED BY <3>2 DEF v, GoesOn
  <2> HIDE DEF r, u
  <2>6. n \in DOMAIN w BY <1>2
  <2>7. ASSUME NEW x \in Page, NEW y \in Seq(Commands), Resumed(at, w[n], applied) = [page |-> x, queue |-> y],
               InPage(x, y, w, n, t, d), SamePage(p, x), Ahead(q, y), x.dirty = p.dirty
        PROVE  Resumed(at, w[n], applied) \in Good[n]
    <3> DEFINE b == [page |-> x, queue |-> y]
    <3>1. b \in Pairs /\ b.page = x /\ b.queue = y OBVIOUS
    <3> HIDE DEF b
    <3>2. Fit(b, n) BY <3>1, <2>7
    <3>3. b \in Good[n] BY <3>1, <3>2, <2>1, <1>3
    <3> QED BY <3>3, <2>7 DEF b
  <2>8. CASE w[n].type = "end"
    <3> DEFINE x == [r EXCEPT !.group = IF @ = w[n].group THEN NoGroup ELSE @]
    <3>1. InPage(x, u, w, n, t, d) BY <2>4, <2>8, MoveEnd
    <3>2. x \in Page BY <3>1 DEF InPage, Shaped
    <3>3. SamePage(r, x) /\ x.dirty = r.dirty BY <2>3 DEF Page, SamePage
    <3>4. Resumed(at, w[n], applied) = [page |-> x, queue |-> u] BY <2>5, <2>8
    <3> HIDE DEF x
    <3>5. SamePage(p, x) BY <3>3, <2>4 DEF SamePage
    <3> QED BY <3>1, <3>2, <3>3, <3>4, <3>5, <2>3, <2>4, <2>7
  <2>9. CASE w[n].type # "end" /\ applied /\ w[n].sid = r.sid /\ ~r.dirty
    <3>1. InPage(r, Append(u, w[n]), w, n, t, d) BY <2>4, <2>9, MoveAppend
    <3>2. Append(u, w[n]) \in Seq(Commands) BY <3>1 DEF InPage, Shaped
    <3>3. w[n] \in Commands
      <4>1. w[n] \in Ends \cup Waiting BY <1>1, <2>6
      <4> QED BY <4>1, <2>9, WaitingIs
    <3>4. Ahead(q, Append(u, w[n])) BY <2>3, <2>4, <3>3, AheadAppend
    <3> QED BY <3>1, <3>2, <3>4, <2>3, <2>4, <2>5, <2>7, <2>9
  <2>10. CASE w[n].type # "end" /\ ~(applied /\ w[n].sid = r.sid /\ ~r.dirty)
    <3>1. "failed" \in t BY <2>4, <2>6, <2>10 DEF SamePage
    <3>2. InPage(Forget(r, w[n]), u, w, n, t, d) BY <2>4, <2>10, <3>1, MoveDrop
    <3>3. Forget(r, w[n]) \in Page BY <3>2 DEF InPage, Shaped
    <3>4. SamePage(r, Forget(r, w[n])) /\ Forget(r, w[n]).dirty = r.dirty BY <2>3, ForgetIs DEF SamePage
    <3>5. SamePage(p, Forget(r, w[n])) BY <3>4, <2>4 DEF SamePage
    <3> QED BY <3>1, <3>2, <3>3, <3>4, <3>5, <2>3, <2>4, <2>5, <2>7, <2>10
  <2> QED BY <2>8, <2>9, <2>10
<1> DEFINE s == Resume(p, q, w, applied)
<1>6. s \in Good[Len(w)] BY <1>2, <1>4, <1>5, ResumeInduct
<1> HIDE DEF s
<1>7. Fit(s, Len(w)) BY <1>2, <1>3, <1>6
<1>8. InPage(s.page, s.queue, <<>>, 0, t, d) BY <1>7, MoveEmptied
<1>9. ResumeTo(p, q, t, d, s) BY <1>7, <1>8 DEF ResumeTo
<1> QED BY <1>9 DEF s

\* A set of naturals that is not empty and bounded has a greatest element.
LEMMA Greatest ==
  ASSUME NEW T, NEW n \in Nat, T \subseteq 1..n, T # {}
  PROVE  \E x \in T : \A y \in T : y <= x
<1> DEFINE S == {n - x : x \in T}
<1>1. \A x \in T : x \in Nat /\ n - x \in Nat OBVIOUS
<1>2. S \subseteq Nat /\ S # {} BY <1>1
<1>3. \A x \in T : n - x \in S OBVIOUS
<1>4. \A y \in S : \E x \in T : y = n - x OBVIOUS
<1> HIDE DEF S
<1>5. PICK y \in S : \A z \in S : y <= z BY <1>2, Least
<1>6. PICK x \in T : y = n - x BY <1>4
<1>7. ASSUME NEW z \in T PROVE z <= x
  <2>1. n - x <= n - z BY <1>3, <1>5, <1>6
  <2> QED BY <2>1, <1>1
<1> QED BY <1>7

LEMMA AheadJoined ==
  ASSUME NEW q \in Seq(Commands), NEW w \in Seq(Ends \cup Waiting), NEW i \in DOMAIN q, q[i].type = "global"
  PROVE  Ahead(q, Joined(q, i, w))
<1> DEFINE r == Joined(q, i, w)
<1>1. r = [q EXCEPT ![i].after = @ \o w] BY DEF Joined
<1> HIDE DEF r
<1>2. DOMAIN r = DOMAIN q /\ \A j \in DOMAIN q : Alike(r[j], q[j]) BY <1>1, AttachIs
<1> QED BY <1>2 DEF Ahead, r

\* All of Sync.
SyncTo(p, q, w, t, d, s) ==
  /\ InPage(s.page, s.queue, <<>>, 0, t, d)
  /\ SamePage(p, s.page)
  /\ Ahead(q, s.queue)
  /\ ~s.page.dirty

LEMMA ResumeClean ==
  ASSUME NEW p, NEW q, NEW w, NEW t, NEW d, InPage(p, q, w, 0, t, d), ~p.dirty,
         \A k \in DOMAIN w : w[k].type # "end" => w[k].sid = p.sid
  PROVE  SyncTo(p, q, w, t, d, Resume(p, q, w, TRUE))
<1> DEFINE s == Resume(p, q, w, TRUE)
<1>1. ResumeTo(p, q, t, d, s) BY MoveResume
<1> HIDE DEF s
<1>2. SyncTo(p, q, w, t, d, s) BY <1>1 DEF SyncTo, ResumeTo
<1> QED BY <1>2 DEF s

LEMMA MoveSync ==
  ASSUME NEW p, NEW q, NEW w, NEW t, NEW d, InPage(p, q, w, 0, t, d),
         \A k \in DOMAIN w : w[k].type # "end" => w[k].sid = p.sid
  PROVE  SyncTo(p, q, w, t, d, Sync(p, q, w))
<1>1. p \in Page /\ q \in Seq(Commands) /\ w \in Seq(Ends \cup Waiting) BY DEF InPage, Shaped
<1>2. CASE p.dirty
  <2> DEFINE r == [p EXCEPT !.dirty = FALSE]
             u == Append(q, Save(p, w))
             s == Sync(p, q, w)
  <2>1. s = [page |-> r, queue |-> u] BY <1>2 DEF Sync
  <2>2. InPage(r, u, <<>>, 0, t, d) BY <1>2, MovePushSave
  <2>3. SamePage(p, r) /\ ~r.dirty BY <1>1, DirtyIs DEF SamePage
  <2>4. Save(p, w) \in Commands BY <1>1, SaveIs
  <2>5. Ahead(q, q) BY AheadSelf
  <2>6. Ahead(q, u) BY <2>4, <2>5, <1>1, AheadAppend
  <2> HIDE DEF r, u, s
  <2>7. s.page = r /\ s.queue = u BY <2>1
  <2>8. SyncTo(p, q, w, t, d, s) BY <2>2, <2>3, <2>6, <2>7 DEF SyncTo
  <2> QED BY <2>8 DEF s
<1>3. CASE ~p.dirty /\ Pending(p, q) # {}
  <2> DEFINE i == CHOOSE i \in Pending(p, q) : \A j \in Pending(p, q) : j <= i
             u == Joined(q, i, w)
             s == Sync(p, q, w)
  <2>1. Pending(p, q) \subseteq 1..Len(q) /\ Len(q) \in Nat BY <1>1 DEF Pending
  <2>2. \E x \in Pending(p, q) : \A y \in Pending(p, q) : y <= x BY <2>1, <1>3, Greatest
  <2>3. i \in Pending(p, q) /\ \A j \in Pending(p, q) : j <= i BY <2>2
  <2>4. s = [page |-> p, queue |-> u] BY <1>3 DEF Sync, Joined
  <2> HIDE DEF i, s
  <2>5. i \in DOMAIN q /\ q[i].type = "global" BY <2>3 DEF Pending
  <2>6. InPage(p, u, <<>>, 0, t, d) BY <2>3, <1>3, MoveAttach
  <2>7. Ahead(q, u) BY <2>5, <1>1, AheadJoined
  <2>8. SamePage(p, p) BY DEF SamePage
  <2> HIDE DEF u
  <2>9. s.page = p /\ s.queue = u BY <2>4
  <2>10. SyncTo(p, q, w, t, d, s) BY <2>6, <2>7, <2>8, <2>9, <1>3 DEF SyncTo
  <2> QED BY <2>10 DEF s
<1>4. CASE ~p.dirty /\ Pending(p, q) = {}
  <2>1. Sync(p, q, w) = Resume(p, q, w, TRUE) BY <1>4 DEF Sync
  <2> QED BY <2>1, <1>4, ResumeClean
<1> QED BY <1>2, <1>3, <1>4

-----------------------------------------------------------------------------
(* The head is finished. *)

\* What must be so of a page whose head has been applied.
Kept(p, c) ==
  /\ c.type = "global" => c.value \subseteq server.ever
  /\ c.type = "local" /\ p.rev = server.rev => c.value = server.local /\ (p.depth = 0 => p.locals = server.local)
Ready(p, c, t, d) ==
  /\ "failed" \in t \/ (~d /\ c.sid = p.sid /\ (Now(p) => Kept(p, c)))
  /\ c.type = "global" /\ c.sid = p.sid
       => p.dirty \/ (Now(p) /\ c.gen = p.gen /\ p.rev = server.rev => p.adj = server.global)

\* The head is taken off.
LEMMA MovePop ==
  ASSUME NEW p, NEW q, NEW t, NEW d, InPage(p, q, <<>>, 0, t, d), q # <<>>, Ready(p, Head(q), t, d)
  PROVE  InPage(Forget(p, Head(q)), Tail(q), Head(q).after, 0, t, FALSE)
<1> DEFINE c == Head(q)
           u == Tail(q)
           h == c.after
           r == Forget(p, c)
<1>1. p \in Page /\ q \in Seq(Commands) BY DEF InPage, Shaped
<1>2. c \in Commands /\ h \in Seq(Ends \cup Waiting)
  <2>1. c \in Commands BY <1>1, PopIs
  <2> QED BY <2>1, CommandIs
<1>3. /\ u \in Seq(Commands) /\ q[1] = c /\ 1 \in DOMAIN q
      /\ \A i \in DOMAIN u : i \in Nat /\ i + 1 \in DOMAIN q /\ u[i] = q[i + 1]
      /\ \A i \in DOMAIN q : i \in Nat /\ i > 0 /\ (i = 1 \/ (i - 1 \in DOMAIN u /\ u[i - 1] = q[i]))
  BY <1>1, PopIs
<1>4. /\ r \in Page /\ r.dirty = p.dirty /\ r.sid = p.sid /\ r.rev = p.rev /\ r.adj = p.adj
      /\ r.locals = p.locals /\ r.gen = p.gen /\ r.held = p.held /\ r.group = p.group /\ r.seq = p.seq
      /\ r.drags = p.drags /\ r.depth \in Nat /\ p.depth \in Nat
      /\ c.type = "local" => r.depth = (IF p.depth = 0 THEN 0 ELSE p.depth - 1)
      /\ c.type # "local" => r.depth = p.depth
  BY <1>1, ForgetIs
<1>5. /\ \A i \in Nat : i \in Pending(r, u) <=> (i # 0 /\ i + 1 \in Pending(p, q))
      /\ \A i : i \in Pending(p, q) => (i = 1 \/ i - 1 \in Pending(r, u))
      /\ 1 \in Pending(p, q) <=> (c.type = "global" /\ c.sid = p.sid)
      /\ \A i \in Nat : \A x : x \in Values(p, q, i + 1)
              => (x \in Values(r, u, i) \/ (c.type = "global" /\ c.sid = p.sid /\ x \in c.value))
      /\ \A x : x \in Coming(p, q)
              => (x \in Coming(r, u) \/ (c.type = "global" /\ c.sid = p.sid /\ x \in c.value))
      /\ Values(p, q, 0) = {}
  BY <1>1, <1>4, PopValues
<1>6. PopPlaced(p, r, q, u, h) BY <1>1, <1>4, PopLater
<1>7. /\ LocalOf(c, p.sid) <=> <<1, 0>> \in Spots(p, q, <<>>, 0)
      /\ Number(p, u, h, 0) = Cardinality(Spots(p, q, <<>>, 0) \ {<<1, 0>>})
      /\ \A i, k \in Nat : Spot(p, u, h, 0, i, k) <=> (Spot(p, q, <<>>, 0, i + 1, k) /\ ~(i = 0 /\ k = 0))
  BY <1>1, SpotsPop
<1>8. Hand(h, 0) = DOMAIN h BY <1>2, HandOfAll
<1>9. Now(r) <=> Now(p) BY <1>4 DEF Now
<1>10. Ready(p, c, t, d) OBVIOUS
<1>11. Tail(q) = u /\ Head(q) = c /\ h = c.after OBVIOUS
<1>12. \A i \in Pending(r, u) : i \in Nat /\ i # 0 /\ i + 1 \in Pending(p, q) /\ u[i] = q[i + 1]
  <2>1. \A i \in Pending(r, u) : i \in DOMAIN u BY DEF Pending
  <2> QED BY <2>1, <1>3, <1>5
<1>13. Spots(r, u, h, 0) = Spots(p, u, h, 0) /\ Number(r, u, h, 0) = Number(p, u, h, 0) BY <1>4, SpotsOfSid
<1> HIDE DEF c, u, h, r
<1>a. Shaped(r, u, h) BY <1>2, <1>3, <1>4 DEF Shaped
<1>b. Sessions(r, u, h, 0)
  <2>1. Sessions(p, q, <<>>, 0) BY DEF InPage
  <2>2. \A i \in DOMAIN u : \A k \in DOMAIN u[i].after : u[i].after[k].type # "end" => u[i].after[k].sid = u[i].sid
    BY <2>1, <1>3 DEF Sessions
  <2>3. \A k \in Hand(h, 0) : h[k].type # "end" => h[k].sid <= p.sid
    <3>1. \A k \in DOMAIN h : h[k].type # "end" => h[k].sid = c.sid BY <2>1, <1>3, <1>11 DEF Sessions
    <3>2. c.sid <= p.sid BY <2>1, <1>3 DEF Sessions
    <3> QED BY <3>1, <3>2, <1>8
  <2> QED BY <2>1, <2>2, <2>3, <1>3, <1>4 DEF Sessions
<1>c. Generations(r, u)
  <2>1. Generations(p, q) BY DEF InPage
  <2> SUFFICES ASSUME Now(p), NEW i \in Pending(r, u)
               PROVE  /\ u[i].gen <= r.gen
                      /\ u[i].gen # r.gen => r.dirty \/ \E j \in Pending(r, u) : i < j
                      /\ u[i].gen = r.gen => r.adj \subseteq u[i].value \cup server.ever
    BY <1>9 DEF Generations
  <2>2. i \in Nat /\ i # 0 /\ i + 1 \in Pending(p, q) /\ u[i] = q[i + 1] BY <1>12
  <2>3. ASSUME NEW j \in Pending(p, q), i + 1 < j PROVE \E l \in Pending(r, u) : i < l
    <3>1. j \in Nat BY <1>3 DEF Pending
    <3>2. j # 1 BY <2>2, <2>3, <3>1
    <3>3. j - 1 \in Pending(r, u) BY <1>5, <3>2
    <3>4. i < j - 1 BY <2>2, <2>3, <3>1
    <3> QED BY <3>3, <3>4
  <2> QED BY <2>1, <2>2, <2>3, <1>4 DEF Generations
<1>d. Showing(r, u)
  <2> SUFFICES ASSUME Now(p), p.rev = server.rev, ~p.dirty, Pending(r, u) = {} PROVE p.adj = server.global
    BY <1>4, <1>9 DEF Showing
  <2>1. CASE Pending(p, q) = {}
    <3>1. Showing(p, q) BY DEF InPage
    <3> QED BY <2>1, <3>1 DEF Showing
  <2>2. CASE Pending(p, q) # {}
    <3>1. \A i \in Pending(p, q) : i = 1 BY <1>5
    <3>2. 1 \in Pending(p, q) BY <3>1, <2>2
    <3>3. Generations(p, q) BY DEF InPage
    <3>4. q[1].gen = p.gen
      <4>1. ~ \E j \in Pending(p, q) : 1 < j BY <3>1
      <4> QED BY <3>2, <3>3, <4>1 DEF Generations
    <3>5. c.type = "global" /\ c.sid = p.sid /\ c.gen = p.gen BY <3>2, <3>4, <1>3, <1>5
    <3> QED BY <3>5, <1>10 DEF Ready
  <2> QED BY <2>1, <2>2
<1>14. ASSUME Now(p), "failed" \notin t
       PROVE  /\ c.sid = p.sid /\ Kept(p, c) /\ ~d
              /\ \A i \in Nat : \A x : x \in Values(p, q, i + 1) => x \in Values(r, u, i) \cup server.ever
              /\ \A x : x \in Coming(p, q) => x \in Coming(r, u) \cup server.ever
              /\ \A x : x \in Values(p, q, 1) => x \in server.ever
  <2>1. c.sid = p.sid /\ Kept(p, c) /\ ~d BY <1>10, <1>14 DEF Ready
  <2>2. c.type = "global" => c.value \subseteq server.ever BY <2>1 DEF Kept
  <2>3. \A i \in Nat : \A x : x \in Values(p, q, i + 1) => x \in Values(r, u, i) \cup server.ever BY <2>2, <1>5
  <2>4. \A x : x \in Coming(p, q) => x \in Coming(r, u) \cup server.ever BY <2>2, <1>5
  <2>5. \A x : x \in Values(p, q, 1) => x \in server.ever
    <3> SUFFICES ASSUME NEW x, x \in Values(p, q, 1) PROVE x \in server.ever OBVIOUS
    <3>1. PICK j \in Pending(p, q) : j <= 1 /\ x \in q[j].value BY <1>1, ValuesAre
    <3>2. j \in Nat /\ j > 0 BY <1>3 DEF Pending
    <3>3. j = 1 BY <3>1, <3>2
    <3>4. c.type = "global" BY <3>3, <1>5
    <3> QED BY <3>1, <3>3, <3>4, <2>2, <1>3
  <2> QED BY <2>1, <2>3, <2>4, <2>5
<1>e. Undos(r, u, h, 0, t)
  <2>1. Undos(p, q, <<>>, 0, t) BY DEF InPage
  <2> SUFFICES ASSUME Now(p), "failed" \notin t
               PROVE  /\ \A i \in DOMAIN u :
                           /\ UndoOf(u[i], p.sid) => u[i].seen \subseteq server.ever \cup Values(r, u, i)
                           /\ \A k \in DOMAIN u[i].after : UndoOf(u[i].after[k], p.sid)
                                => u[i].after[k].seen \subseteq server.ever \cup Values(r, u, i)
                      /\ \A k \in DOMAIN h : UndoOf(h[k], p.sid) => h[k].seen \subseteq server.ever
    BY <1>4, <1>8, <1>9 DEF Undos
  <2>2. \A i \in DOMAIN q :
       /\ UndoOf(q[i], p.sid) => q[i].seen \subseteq server.ever \cup Values(p, q, i)
       /\ \A k \in DOMAIN q[i].after :
            UndoOf(q[i].after[k], p.sid) => q[i].after[k].seen \subseteq server.ever \cup Values(p, q, i)
    BY <2>1 DEF Undos
  <2>3. ASSUME NEW k \in DOMAIN h, UndoOf(h[k], p.sid) PROVE h[k].seen \subseteq server.ever
    <3>1. h[k].seen \subseteq server.ever \cup Values(p, q, 1) BY <2>2, <2>3, <1>3, <1>11
    <3> QED BY <3>1, <1>14
  <2>4. ASSUME NEW i \in DOMAIN u
        PROVE  /\ UndoOf(u[i], p.sid) => u[i].seen \subseteq server.ever \cup Values(r, u, i)
               /\ \A k \in DOMAIN u[i].after : UndoOf(u[i].after[k], p.sid)
                                => u[i].after[k].seen \subseteq server.ever \cup Values(r, u, i)
    <3>1. i \in Nat /\ i + 1 \in DOMAIN q /\ u[i] = q[i + 1] BY <1>3
    <3>2. \A x : x \in Values(p, q, i + 1) => x \in Values(r, u, i) \cup server.ever BY <3>1, <1>14
    <3> QED BY <3>1, <3>2, <2>2
  <2> QED BY <2>3, <2>4
<1>f. Unsaved(r, u, t)
  <2>1. Unsaved(p, q, t) BY DEF InPage
  <2> QED BY <2>1, <1>4, <1>9, <1>14 DEF Unsaved
<1>g. Gestures(r, u, h, 0)
  <2>1. Gestures(p, q, <<>>, 0) BY DEF InPage
  <2>2. Made(r) = Made(p) BY <1>4 DEF Made
  <2>3. \A x : Gone(r, x) <=> Gone(p, x) BY <1>4 DEF Gone
  <2>4. \A k \in DOMAIN h : Gone(p, h[k]) BY <2>1, <1>3, <1>11 DEF Gestures
  <2>5. \A i \in DOMAIN u : \A k \in DOMAIN u[i].after : Gone(p, u[i].after[k]) BY <2>1, <1>3 DEF Gestures
  <2>6. \A i \in DOMAIN u : u[i].type = "global" => u[i].value \subseteq Made(p) BY <2>1, <1>3 DEF Gestures
  <2> QED BY <2>1, <2>2, <2>3, <2>4, <2>5, <2>6, <1>4, <1>8 DEF Gestures
<1>h. Dragged(r, u, h, 0, t)
  <2>1. Dragged(p, q, <<>>, 0, t) BY DEF InPage
  <2> SUFFICES ASSUME Now(p), "failed" \notin t
               PROVE  /\ \A e \in (p.adj \cap DOMAIN p.drags) \ (server.ever \cup Coming(r, u)) :
                           p.drags[e] = NoGroup \/ ((p.held \/ EndWaits(h, 0)) /\ p.drags[e] = p.group)
                      /\ \A i \in Pending(r, u) :
                           \A e \in (u[i].value \cap DOMAIN p.drags) \ (server.ever \cup Values(r, u, i - 1)) :
                             p.drags[e] \in {NoGroup, u[i].group}
    BY <1>4, <1>9 DEF Dragged
  <2>2. ~EndWaits(<<>>, 0) BY HandOfNone DEF EndWaits
  <2>3. \A e \in (p.adj \cap DOMAIN p.drags) \ (server.ever \cup Coming(p, q)) :
           p.drags[e] = NoGroup \/ (p.held /\ p.drags[e] = p.group)
    BY <2>1, <2>2 DEF Dragged
  <2>4. \A e \in (p.adj \cap DOMAIN p.drags) \ (server.ever \cup Coming(r, u)) :
           p.drags[e] = NoGroup \/ ((p.held \/ EndWaits(h, 0)) /\ p.drags[e] = p.group)
    BY <2>3, <1>14
  <2>5. ASSUME NEW i \in Pending(r, u),
               NEW e \in (u[i].value \cap DOMAIN p.drags) \ (server.ever \cup Values(r, u, i - 1))
        PROVE  p.drags[e] \in {NoGroup, u[i].group}
    <3>1. i \in Nat /\ i # 0 /\ i + 1 \in Pending(p, q) /\ u[i] = q[i + 1] BY <1>12
    <3>2. i - 1 \in Nat /\ i - 1 + 1 = i /\ i + 1 - 1 = i BY <3>1
    <3>3. \A x : x \in Values(p, q, i) => x \in Values(r, u, i - 1) \cup server.ever BY <3>2, <1>14
    <3>4. e \notin server.ever \cup Values(p, q, i + 1 - 1) BY <3>2, <3>3
    <3> QED BY <3>1, <3>4, <2>1 DEF Dragged
  <2> QED BY <2>4, <2>5
<1>15. IsFiniteSet(Spots(p, q, <<>>, 0)) /\ Number(p, q, <<>>, 0) \in Nat
  <2>1. <<>> \in Seq(Ends \cup Waiting) OBVIOUS
  <2> QED BY <2>1, <1>1, SpotsFinite DEF Number
<1>16. /\ LocalOf(c, p.sid) => Number(r, u, h, 0) = Number(p, q, <<>>, 0) - 1 /\ Number(p, q, <<>>, 0) > 0
       /\ ~LocalOf(c, p.sid) => Number(r, u, h, 0) = Number(p, q, <<>>, 0)
       /\ Number(r, u, h, 0) \in Nat
  <2> DEFINE S == Spots(p, q, <<>>, 0)
             z == <<1, 0>>
  <2>1. Number(r, u, h, 0) = Cardinality(S \ {z}) /\ Number(p, q, <<>>, 0) = Cardinality(S) BY <1>7, <1>13 DEF Number
  <2>2. IsFiniteSet(S) BY <1>15
  <2>3. LocalOf(c, p.sid) <=> z \in S BY <1>7
  <2> HIDE DEF S, z
  <2>4. CASE z \in S
    <3>1. Cardinality(S \ {z}) = Cardinality(S) - 1 BY <2>2, <2>4, FS_RemoveElement
    <3>2. IsFiniteSet(S \ {z}) BY <2>2, FS_RemoveElement
    <3>3. Cardinality(S \ {z}) \in Nat /\ Cardinality(S) \in Nat BY <2>2, <3>2, FS_CardinalityType
    <3> QED BY <3>1, <3>3, <2>1, <2>3, <2>4
  <2>5. CASE z \notin S
    <3>1. S \ {z} = S BY <2>5
    <3>2. Cardinality(S) \in Nat BY <2>2, FS_CardinalityType
    <3> QED BY <3>1, <3>2, <2>1, <2>3, <2>5
  <2> QED BY <2>4, <2>5
<1>i. Depths(r, u, h, 0, t)
  <2>1. Depths(p, q, <<>>, 0, t) BY DEF InPage
  <2>2. p.depth <= Number(p, q, <<>>, 0) BY <2>1 DEF Depths
  <2>3. LocalOf(c, p.sid) <=> c.type = "local" /\ c.sid = p.sid BY DEF LocalOf
  <2>4. r.depth <= Number(r, u, h, 0)
    <3>1. CASE c.type = "local" BY <3>1, <2>2, <2>3, <1>4, <1>15, <1>16
    <3>2. CASE c.type # "local" BY <3>2, <2>2, <2>3, <1>4, <1>15, <1>16
    <3> QED BY <3>1, <3>2
  <2>5. ASSUME "inherited" \notin t PROVE r.depth = Number(r, u, h, 0) /\ Mine(u, p.sid) /\ MineHand(h, 0, p.sid)
    <3>1. p.depth = Number(p, q, <<>>, 0) /\ Mine(q, p.sid) BY <2>1, <2>5 DEF Depths
    <3>2. c.type = "local" => c.sid = p.sid BY <3>1, <1>3 DEF Mine
    <3>3. MineHand(h, 0, p.sid) BY <3>1, <1>3, <1>8, <1>11 DEF Mine, MineHand
    <3>4. Mine(u, p.sid) BY <3>1, <1>3 DEF Mine
    <3>5. r.depth = Number(r, u, h, 0)
      <4>1. CASE c.type = "local" BY <4>1, <3>1, <3>2, <2>3, <1>4, <1>15, <1>16
      <4>2. CASE c.type # "local" BY <4>2, <3>1, <2>3, <1>4, <1>15, <1>16
      <4> QED BY <4>1, <4>2
    <3> QED BY <3>3, <3>4, <3>5
  <2> QED BY <2>4, <2>5, <1>4 DEF Depths
<1>17. \A i, k \in Nat : Later(r, u, h, 0, i, k) <=> Later(p, q, <<>>, 0, i + 1, k) BY <1>6 DEF PopPlaced
<1>j. Alone(r, u, h, 0, t)
  <2>1. Alone(p, q, <<>>, 0, t) BY DEF InPage
  <2> SUFFICES ASSUME Now(p), "overtaken" \notin t, NEW i \in Nat, NEW k \in Nat, NEW j \in Nat, NEW l \in Nat,
                      Later(r, u, h, 0, i, k), Later(r, u, h, 0, j, l)
               PROVE  i = j /\ k = l
    BY <1>9 DEF Alone
  <2>2. Later(p, q, <<>>, 0, i + 1, k) /\ Later(p, q, <<>>, 0, j + 1, l) BY <1>17
  <2>3. i + 1 \in Nat /\ j + 1 \in Nat OBVIOUS
  <2>4. i + 1 = j + 1 /\ k = l BY <2>1, <2>2, <2>3 DEF Alone
  <2> QED BY <2>4
<1>k. Strokes(r, u, h, 0, t, FALSE)
  <2> SUFFICES ASSUME Now(p), "failed" \notin t, "overtaken" \notin t
               PROVE  /\ Spots(r, u, h, 0) = {} /\ p.rev = server.rev => p.locals = server.local
                      /\ r.depth > 0 =>
                           /\ \A i, k \in Nat : LaterLocal(r, u, h, 0, i, k) => Item(u, h, i, k).value = p.locals
                           /\ \A i \in DOMAIN u : Newest(r, u, i) =>
                                u[i].value = p.locals \/ \E j, l \in Nat : LaterLocal(r, u, h, 0, j, l)
    BY <1>4, <1>9 DEF Strokes
  <2>1. c.sid = p.sid /\ Kept(p, c) /\ ~d BY <1>14
  <2>2. Strokes(p, q, <<>>, 0, t, d) BY DEF InPage
  <2>3. /\ Spots(p, q, <<>>, 0) = {} /\ p.rev = server.rev => p.locals = server.local
        /\ p.depth > 0 =>
             /\ \A i, k \in Nat : LaterLocal(p, q, <<>>, 0, i, k) => Item(q, <<>>, i, k).value = p.locals
             /\ \A i \in DOMAIN q : Newest(p, q, i) =>
                  q[i].value = p.locals \/ \E j, l \in Nat : LaterLocal(p, q, <<>>, 0, j, l)
    BY <2>1, <2>2 DEF Strokes
  <2>4. \A i, k \in Nat : Later(r, u, h, 0, i, k) => Item(u, h, i, k) = Item(q, <<>>, i + 1, k)
    BY <1>6 DEF PopPlaced
  <2>5. ASSUME NEW i \in Nat, NEW k \in Nat, LaterLocal(r, u, h, 0, i, k)
        PROVE  LaterLocal(p, q, <<>>, 0, i + 1, k) /\ Item(u, h, i, k) = Item(q, <<>>, i + 1, k)
    <3>1. Later(r, u, h, 0, i, k) /\ Item(u, h, i, k).type = "local" BY <2>5 DEF LaterLocal
    <3>2. Item(u, h, i, k) = Item(q, <<>>, i + 1, k) BY <3>1, <2>4
    <3>3. Later(p, q, <<>>, 0, i + 1, k) BY <3>1, <1>17
    <3> QED BY <3>1, <3>2, <3>3 DEF LaterLocal
  <2>6. ASSUME NEW j \in Nat, NEW l \in Nat, LaterLocal(p, q, <<>>, 0, j, l)
        PROVE  \E i, k \in Nat : LaterLocal(r, u, h, 0, i, k)
    <3>1. Later(p, q, <<>>, 0, j, l) /\ Item(q, <<>>, j, l).type = "local" BY <2>6 DEF LaterLocal
    <3>2. j # 0
      <4>1. 0 \notin DOMAIN q BY <1>1
      <4> QED BY <3>1, <4>1, HandOfNone DEF Later
    <3>3. j - 1 \in Nat /\ j - 1 + 1 = j BY <3>2
    <3>4. Later(r, u, h, 0, j - 1, l) BY <3>1, <3>3, <1>17
    <3>5. Item(u, h, j - 1, l) = Item(q, <<>>, j, l) BY <3>3, <3>4, <2>4
    <3>6. LaterLocal(r, u, h, 0, j - 1, l) BY <3>1, <3>4, <3>5 DEF LaterLocal
    <3> QED BY <3>3, <3>6
  <2>7. ASSUME r.depth > 0 PROVE p.depth > 0
    <3>1. CASE c.type = "local" BY <3>1, <2>7, <1>4
    <3>2. CASE c.type # "local" BY <3>2, <2>7, <1>4
    <3> QED BY <3>1, <3>2
  <2>8. ASSUME r.depth > 0, NEW i \in Nat, NEW k \in Nat, LaterLocal(r, u, h, 0, i, k)
        PROVE  Item(u, h, i, k).value = p.locals
    <3>1. LaterLocal(p, q, <<>>, 0, i + 1, k) /\ Item(u, h, i, k) = Item(q, <<>>, i + 1, k) BY <2>5, <2>8
    <3>2. i + 1 \in Nat OBVIOUS
    <3> QED BY <3>1, <3>2, <2>3, <2>7, <2>8
  <2>9. ASSUME r.depth > 0, NEW i \in DOMAIN u, Newest(r, u, i)
        PROVE  u[i].value = p.locals \/ \E j, l \in Nat : LaterLocal(r, u, h, 0, j, l)
    <3>1. i \in Nat /\ i + 1 \in DOMAIN q /\ u[i] = q[i + 1] BY <1>3
    <3>2. ASSUME NEW j \in DOMAIN q, j > i + 1 PROVE ~LocalOf(q[j], p.sid)
      <4>1. j \in Nat /\ (j = 1 \/ (j - 1 \in DOMAIN u /\ u[j - 1] = q[j])) BY <1>3
      <4>2. j # 1 /\ j - 1 > i BY <4>1, <3>1, <3>2
      <4> QED BY <4>1, <4>2, <2>9, <1>4 DEF Newest
    <3>3. Newest(p, q, i + 1) BY <3>1, <3>2, <2>9, <1>4 DEF Newest
    <3>4. u[i].value = p.locals \/ \E j, l \in Nat : LaterLocal(p, q, <<>>, 0, j, l)
      BY <3>1, <3>3, <2>3, <2>7, <2>9
    <3> QED BY <3>4, <2>6
  <2>10. ASSUME Spots(r, u, h, 0) = {}, p.rev = server.rev PROVE p.locals = server.local
    <3>0. \A i, k \in Nat : ~Spot(p, u, h, 0, i, k) BY <2>10, <1>13, SpotIn
    <3>1. \A x \in Spots(p, q, <<>>, 0) : x = <<1, 0>>
      <4> SUFFICES ASSUME NEW x \in Spots(p, q, <<>>, 0) PROVE x = <<1, 0>> OBVIOUS
      <4>1. x = <<x[1], x[2]>> /\ x[1] \in Nat /\ x[2] \in Nat /\ Spot(p, q, <<>>, 0, x[1], x[2]) BY SpotsAre
      <4>2. x[1] # 0
        <5>1. 0 \notin DOMAIN q BY <1>1
        <5> QED BY <4>1, <5>1, HandOfNone DEF Spot
      <4>3. x[1] - 1 \in Nat /\ x[1] - 1 + 1 = x[1] BY <4>1, <4>2
      <4>4. x[1] - 1 = 0 /\ x[2] = 0 BY <4>1, <4>3, <3>0, <1>7
      <4>5. x[1] = 1 BY <4>3, <4>4
      <4> QED BY <4>1, <4>4, <4>5
    <3>2. CASE Spots(p, q, <<>>, 0) = {} BY <3>2, <2>3, <2>10
    <3>3. CASE Spots(p, q, <<>>, 0) # {}
      <4>1. <<1, 0>> \in Spots(p, q, <<>>, 0) BY <3>1, <3>3
      <4>2. c.type = "local" BY <4>1, <1>7 DEF LocalOf
      <4>3. c.value = server.local /\ (p.depth = 0 => p.locals = server.local) BY <4>2, <2>1, <2>10 DEF Kept
      <4>4. ASSUME p.depth > 0 PROVE c.value = p.locals
        <5>1. Newest(p, q, 1)
          <6>1. ASSUME NEW j \in DOMAIN q, j > 1 PROVE ~LocalOf(q[j], p.sid)
            <7>1. Spot(p, q, <<>>, 0, j, 0) <=> LocalOf(q[j], p.sid)
              <8>1. j \in Nat /\ j # 0 BY <1>3
              <8>2. q[j] \in Commands BY <1>1
              <8>3. 0 \notin DOMAIN q[j].after BY <8>2, AfterIs
              <8> QED BY <8>1, <8>3 DEF Spot
            <7>2. j \in Nat BY <1>3
            <7>3. Spot(p, q, <<>>, 0, j, 0) => <<j, 0>> \in Spots(p, q, <<>>, 0) BY <7>2, SpotIn
            <7>4. <<j, 0>> # <<1, 0>> BY <6>1
            <7> QED BY <7>1, <7>3, <7>4, <3>1
          <6>2. LocalOf(q[1], p.sid) BY <4>1, <1>3, <1>7
          <6> QED BY <6>1, <6>2 DEF Newest
        <5>2. ASSUME NEW j \in Nat, NEW l \in Nat, LaterLocal(p, q, <<>>, 0, j, l) PROVE FALSE
          <6>1. PICK i \in Nat, k \in Nat : LaterLocal(r, u, h, 0, i, k) BY <5>2, <2>6
          <6>2. Spot(r, u, h, 0, i, k)
            <7>1. i \in DOMAIN u => i # 0 BY <1>3
            <7> QED BY <6>1, <7>1 DEF LaterLocal, Later, Item, Spot, Goes, LocalOf
          <6> QED BY <6>2, <2>10, SpotIn
        <5>3. q[1].value = p.locals \/ \E j, l \in Nat : LaterLocal(p, q, <<>>, 0, j, l)
          BY <5>1, <4>4, <2>3, <1>3
        <5> QED BY <5>2, <5>3, <1>3
      <4>5. p.depth = 0 \/ p.depth > 0 BY <1>4
      <4> QED BY <4>3, <4>4, <4>5
    <3> QED BY <3>2, <3>3
  <2> QED BY <2>8, <2>9, <2>10
<1>99. InPage(r, u, h, 0, t, FALSE)
  BY <1>a, <1>b, <1>c, <1>d, <1>e, <1>f, <1>g, <1>h, <1>i, <1>j, <1>k DEF InPage
<1> QED BY <1>99 DEF r, u, h, c

\* More trouble asks for less.
LEMMA Weaker ==
  ASSUME NEW p, NEW q, NEW w, NEW n, NEW t, NEW d, NEW s, NEW e, InPage(p, q, w, n, t, d),
         t \subseteq s, "failed" \in s \/ (d => e)
  PROVE  InPage(p, q, w, n, s, e)
<1>1. /\ "failed" \notin s => "failed" \notin t
      /\ "overtaken" \notin s => "overtaken" \notin t
      /\ "inherited" \notin s => "inherited" \notin t
  OBVIOUS
<1>2. Undos(p, q, w, n, s) BY <1>1 DEF InPage, Undos
<1>3. Unsaved(p, q, s) BY <1>1 DEF InPage, Unsaved
<1>4. Dragged(p, q, w, n, s) BY <1>1 DEF InPage, Dragged
<1>5. Depths(p, q, w, n, s) BY <1>1 DEF InPage, Depths
<1>6. Alone(p, q, w, n, s) BY <1>1 DEF InPage, Alone
<1>7. Strokes(p, q, w, n, s, e) BY <1>1 DEF InPage, Strokes
<1> QED BY <1>2, <1>3, <1>4, <1>5, <1>6, <1>7 DEF InPage

\* A page that is unsaved again.
LEMMA MoveDirty ==
  ASSUME NEW p, NEW q, NEW w, NEW n, NEW t, NEW d, InPage(p, q, w, n, t, d), "failed" \in t
  PROVE  InPage([p EXCEPT !.dirty = TRUE], q, w, n, t, d)
<1> DEFINE r == [p EXCEPT !.dirty = TRUE]
<1>1. p \in Page /\ q \in Seq(Commands) /\ w \in Seq(Ends \cup Waiting) BY DEF InPage, Shaped
<1>2. /\ r \in Page /\ r.dirty = TRUE /\ r.sid = p.sid /\ r.rev = p.rev /\ r.adj = p.adj /\ r.locals = p.locals
      /\ r.gen = p.gen /\ r.held = p.held /\ r.group = p.group /\ r.seq = p.seq /\ r.depth = p.depth
      /\ r.drags = p.drags
  BY <1>1, DirtyIs
<1> HIDE DEF r
<1>3. Shaped(r, q, w) BY <1>1, <1>2 DEF Shaped
<1>4. Sessions(r, q, w, n) BY <1>2, SameParts DEF InPage
<1>5. Generations(r, q)
  <2>1. Pending(r, q) = Pending(p, q) /\ (Now(r) <=> Now(p)) BY <1>2 DEF Pending, Now
  <2>2. Generations(p, q) BY DEF InPage
  <2> QED BY <2>1, <2>2, <1>2 DEF Generations
<1>6. Showing(r, q) BY <1>2 DEF Showing
<1>7. Undos(r, q, w, n, t) /\ Unsaved(r, q, t) /\ Dragged(r, q, w, n, t) /\ Strokes(r, q, w, n, t, d)
  BY DEF Undos, Unsaved, Dragged, Strokes
<1>8. Gestures(r, q, w, n) BY <1>2, SameParts DEF InPage
<1>9. Depths(r, q, w, n, t) BY <1>2, SameParts DEF InPage
<1>10. Alone(r, q, w, n, t) BY <1>2, SameParts DEF InPage
<1>11. InPage(r, q, w, n, t, d) BY <1>3, <1>4, <1>5, <1>6, <1>7, <1>8, <1>9, <1>10 DEF InPage
<1> QED BY <1>11 DEF r

\* What a document read or answered for the photo of the page says.
ToldOf(p, doc) ==
  /\ doc.global \subseteq Made(p)
  /\ Now(p) => /\ doc.global \subseteq server.ever
               /\ doc.rev = server.rev => doc.global = server.global /\ doc.local = server.local

\* Nothing queued, nothing counted.
LEMMA NothingQueued ==
  ASSUME NEW p, NEW t, NEW d, InPage(p, <<>>, <<>>, 0, t, d)
  PROVE  /\ p.depth = 0 /\ Spots(p, <<>>, <<>>, 0) = {} /\ Pending(p, <<>>) = {}
         /\ \A i, k : ~Later(p, <<>>, <<>>, 0, i, k)
<1>1. DOMAIN <<>> = {} OBVIOUS
<1>2. Spots(p, <<>>, <<>>, 0) = {}
  <2>1. \A i, k : ~Spot(p, <<>>, <<>>, 0, i, k) BY <1>1, HandOfNone DEF Spot
  <2> QED BY <2>1 DEF Spots
<1>3. Number(p, <<>>, <<>>, 0) = 0 BY <1>2, FS_EmptySet DEF Number
<1>4. p.depth \in Nat BY DEF InPage, Shaped, Page
<1>5. p.depth <= 0 BY <1>3 DEF InPage, Depths
<1>6. p.depth = 0 BY <1>4, <1>5
<1> QED BY <1>1, <1>2, <1>6, HandOfNone DEF Pending, Later

\* The same photo: what is counted over the queue does not change.
SamePhoto(p, r, q) ==
  /\ Now(r) <=> Now(p)
  /\ Pending(r, q) = Pending(p, q) /\ (\A i : Values(r, q, i) = Values(p, q, i)) /\ Coming(r, q) = Coming(p, q)
  /\ Spots(r, q, <<>>, 0) = Spots(p, q, <<>>, 0)
  /\ \A i, k : Later(r, q, <<>>, 0, i, k) <=> Later(p, q, <<>>, 0, i, k)
  /\ \A i, k : LaterLocal(r, q, <<>>, 0, i, k) <=> LaterLocal(p, q, <<>>, 0, i, k)
  /\ \A i : Newest(r, q, i) <=> Newest(p, q, i)

LEMMA SamePhotoIs == ASSUME NEW p, NEW r, NEW q, r.sid = p.sid PROVE SamePhoto(p, r, q)
<1>1. Pending(r, q) = Pending(p, q) BY DEF Pending
<1>2. (\A i : Values(r, q, i) = Values(p, q, i)) /\ Coming(r, q) = Coming(p, q) BY <1>1 DEF Values, Coming
<1>3. Spots(r, q, <<>>, 0) = Spots(p, q, <<>>, 0) BY SpotsOfSid
<1>4. \A i, k : Later(r, q, <<>>, 0, i, k) <=> Later(p, q, <<>>, 0, i, k) BY DEF Later
<1>5. \A i, k : LaterLocal(r, q, <<>>, 0, i, k) <=> LaterLocal(p, q, <<>>, 0, i, k) BY <1>4 DEF LaterLocal
<1>6. \A i : Newest(r, q, i) <=> Newest(p, q, i) BY DEF Newest
<1>7. Now(r) <=> Now(p) BY DEF Now
<1> QED BY <1>1, <1>2, <1>3, <1>4, <1>5, <1>6, <1>7 DEF SamePhoto

\* The page takes the session's document whole.
LEMMA MoveRefresh ==
  ASSUME NEW p, NEW q, NEW t, NEW d, NEW doc \in Document, InPage(p, q, <<>>, 0, t, d), ToldOf(p, doc),
         "failed" \in t \/ d \/ q = <<>>
  PROVE  InPage([p EXCEPT !.rev = doc.rev, !.adj = doc.global, !.locals = doc.local], q, <<>>, 0, t, d)
<1> DEFINE r == [p EXCEPT !.rev = doc.rev, !.adj = doc.global, !.locals = doc.local]
<1>1. p \in Page /\ q \in Seq(Commands) BY DEF InPage, Shaped
<1>2. /\ r \in Page /\ r.sid = p.sid /\ r.rev = doc.rev /\ r.adj = doc.global /\ r.locals = doc.local
      /\ r.dirty = p.dirty
      /\ r.gen = p.gen /\ r.held = p.held /\ r.group = p.group /\ r.seq = p.seq /\ r.depth = p.depth
      /\ r.drags = p.drags
  BY <1>1 DEF Page, Document
<1> HIDE DEF r
<1>3. /\ Now(r) <=> Now(p)
      /\ Pending(r, q) = Pending(p, q) /\ (\A i : Values(r, q, i) = Values(p, q, i)) /\ Coming(r, q) = Coming(p, q)
      /\ Spots(r, q, <<>>, 0) = Spots(p, q, <<>>, 0)
      /\ \A i, k : Later(r, q, <<>>, 0, i, k) <=> Later(p, q, <<>>, 0, i, k)
  <2>1. r.sid = p.sid BY <1>2
  <2>2. SamePhoto(p, r, q) BY <2>1, SamePhotoIs
  <2> QED BY <2>2 DEF SamePhoto
<1>4. Shaped(r, q, <<>>) BY <1>1, <1>2 DEF Shaped
<1>5. Sessions(r, q, <<>>, 0) BY <1>2, SameParts DEF InPage
<1>6. Generations(r, q) BY <1>2, <1>3 DEF InPage, Generations, ToldOf
<1>7. Showing(r, q) BY <1>2, <1>3 DEF Showing, ToldOf
<1>8. Undos(r, q, <<>>, 0, t) BY <1>2, <1>3, HandOfNone DEF InPage, Undos
<1>9. Unsaved(r, q, t) BY <1>2, <1>3 DEF Unsaved, ToldOf
<1>10. Gestures(r, q, <<>>, 0)
  <2>1. Made(r) = Made(p) BY <1>2 DEF Made
  <2>2. \A c : Gone(r, c) <=> Gone(p, c) BY <1>2 DEF Gone
  <2> QED BY <2>1, <2>2, <1>2 DEF InPage, Gestures, ToldOf
<1>11. Dragged(r, q, <<>>, 0, t) BY <1>2, <1>3 DEF InPage, Dragged, ToldOf
<1>12. Depths(r, q, <<>>, 0, t) BY <1>2, SameParts DEF InPage
<1>13. Alone(r, q, <<>>, 0, t) BY <1>2, SameParts DEF InPage
<1>14. Strokes(r, q, <<>>, 0, t, d)
  <2> SUFFICES ASSUME Now(p), "failed" \notin t, ~d PROVE Strokes(r, q, <<>>, 0, t, d)
    BY <1>3 DEF Strokes
  <2>1. q = <<>> OBVIOUS
  <2>2. r.depth = 0 BY <2>1, <1>2, NothingQueued
  <2> QED BY <2>2, <1>2 DEF Strokes, ToldOf
<1>15. InPage(r, q, <<>>, 0, t, d)
  BY <1>4, <1>5, <1>6, <1>7, <1>8, <1>9, <1>10, <1>11, <1>12, <1>13, <1>14 DEF InPage
<1> QED BY <1>15 DEF r

\* The page takes the document that answers the head, but for what is newer.
LEMMA TakenIs ==
  ASSUME NEW p \in Page, NEW c, NEW doc \in Document
  PROVE  LET r == Taken(p, c, doc)
         IN /\ r \in Page /\ r.sid = p.sid /\ r.rev = doc.rev /\ r.dirty = p.dirty
            /\ r.gen = p.gen /\ r.held = p.held /\ r.group = p.group /\ r.seq = p.seq /\ r.depth = p.depth
            /\ r.drags = p.drags
            /\ p.depth > 0 => r.locals = p.locals
            /\ ~(p.depth > 0) => r.locals = doc.local
            /\ c.type = "global" /\ c.gen # p.gen => r.adj = p.adj
            /\ ~(c.type = "global" /\ c.gen # p.gen) => r.adj = doc.global
            /\ r.adj = p.adj \/ r.adj = doc.global
<1> DEFINE l == IF p.depth > 0 THEN p.locals ELSE doc.local
           a == IF c.type = "global" /\ c.gen # p.gen THEN p.adj ELSE doc.global
           r == [p EXCEPT !.rev = doc.rev, !.locals = l, !.adj = a]
<1>1. Taken(p, c, doc) = r BY DEF Taken
<1>2. /\ p.depth > 0 => l = p.locals
      /\ ~(p.depth > 0) => l = doc.local
      /\ c.type = "global" /\ c.gen # p.gen => a = p.adj
      /\ ~(c.type = "global" /\ c.gen # p.gen) => a = doc.global
      /\ a = p.adj \/ a = doc.global
      /\ l = p.locals \/ l = doc.local
  OBVIOUS
<1> HIDE DEF l, a
<1>3. l \in SUBSET LocalIds /\ a \in SUBSET GlobalIds
  <2>1. p.locals \in SUBSET LocalIds /\ p.adj \in SUBSET GlobalIds BY DEF Page
  <2>2. doc.local \in SUBSET LocalIds /\ doc.global \in SUBSET GlobalIds BY DEF Document
  <2> QED BY <2>1, <2>2, <1>2
<1>4. doc.rev \in Nat BY DEF Document
<1>5. /\ r \in Page /\ r.sid = p.sid /\ r.rev = doc.rev /\ r.dirty = p.dirty
      /\ r.gen = p.gen /\ r.held = p.held /\ r.group = p.group /\ r.seq = p.seq /\ r.depth = p.depth
      /\ r.drags = p.drags /\ r.locals = l /\ r.adj = a
  BY <1>3, <1>4 DEF Page
<1> HIDE DEF r
<1> QED BY <1>1, <1>2, <1>5

LEMMA MoveTake ==
  ASSUME NEW p, NEW q, NEW t, NEW doc \in Document, InPage(p, q, <<>>, 0, t, FALSE), q # <<>>,
         ToldOf(p, doc), Head(q).sid = p.sid,
         Now(p) => /\ Head(q).type = "global" => Head(q).value \subseteq server.ever
                   /\ Head(q).type = "local" => Head(q).value = doc.local
  PROVE  InPage(Taken(p, Head(q), doc), q, <<>>, 0, t, FALSE) /\ Ready(Taken(p, Head(q), doc), Head(q), t, FALSE)
<1> DEFINE c == Head(q)
           r == Taken(p, c, doc)
<1>1. p \in Page /\ q \in Seq(Commands) BY DEF InPage, Shaped
<1>2. /\ r \in Page /\ r.sid = p.sid /\ r.rev = doc.rev /\ r.dirty = p.dirty
      /\ r.gen = p.gen /\ r.held = p.held /\ r.group = p.group /\ r.seq = p.seq /\ r.depth = p.depth
      /\ r.drags = p.drags
      /\ p.depth > 0 => r.locals = p.locals
      /\ ~(p.depth > 0) => r.locals = doc.local
      /\ c.type = "global" /\ c.gen # p.gen => r.adj = p.adj
      /\ ~(c.type = "global" /\ c.gen # p.gen) => r.adj = doc.global
      /\ r.adj = p.adj \/ r.adj = doc.global
  BY <1>1, TakenIs
<1>20. c.sid = p.sid /\ (Now(p) => /\ c.type = "global" => c.value \subseteq server.ever
                                   /\ c.type = "local" => c.value = doc.local)
  OBVIOUS
<1>21. q[1] = c /\ 1 \in DOMAIN q BY <1>1, PopIs
<1> HIDE DEF c, r
<1>3. /\ Now(r) <=> Now(p)
      /\ Pending(r, q) = Pending(p, q) /\ (\A i : Values(r, q, i) = Values(p, q, i)) /\ Coming(r, q) = Coming(p, q)
      /\ Spots(r, q, <<>>, 0) = Spots(p, q, <<>>, 0)
      /\ \A i, k : Later(r, q, <<>>, 0, i, k) <=> Later(p, q, <<>>, 0, i, k)
      /\ \A i, k : LaterLocal(r, q, <<>>, 0, i, k) <=> LaterLocal(p, q, <<>>, 0, i, k)
      /\ \A i : Newest(r, q, i) <=> Newest(p, q, i)
  <2>1. r.sid = p.sid BY <1>2
  <2>2. SamePhoto(p, r, q) BY <2>1, SamePhotoIs
  <2> QED BY <2>2 DEF SamePhoto
<1>4. Shaped(r, q, <<>>) BY <1>1, <1>2 DEF Shaped
<1>5. Sessions(r, q, <<>>, 0) BY <1>2, SameParts DEF InPage
<1>6. Generations(r, q)
  <2>1. Generations(p, q) BY DEF InPage
  <2>2. CASE r.adj = p.adj BY <2>1, <2>2, <1>2, <1>3 DEF Generations
  <2>3. CASE r.adj = doc.global BY <2>1, <2>3, <1>2, <1>3 DEF Generations, ToldOf
  <2> QED BY <2>2, <2>3, <1>2
<1>7. Showing(r, q)
  <2> SUFFICES ASSUME Now(p), r.rev = server.rev, Pending(p, q) = {} PROVE r.adj = server.global
    BY <1>3 DEF Showing
  <2>1. c.type # "global" BY <1>20, <1>21 DEF Pending
  <2> QED BY <2>1, <1>2 DEF ToldOf
<1>8. Undos(r, q, <<>>, 0, t) BY <1>2, <1>3, HandOfNone DEF InPage, Undos
<1>9. Unsaved(r, q, t)
  <2>1. Unsaved(p, q, t) BY DEF InPage
  <2> QED BY <2>1, <1>2, <1>3 DEF Unsaved, ToldOf
<1>10. Gestures(r, q, <<>>, 0)
  <2>1. Made(r) = Made(p) BY <1>2 DEF Made
  <2>2. \A x : Gone(r, x) <=> Gone(p, x) BY <1>2 DEF Gone
  <2>3. Gestures(p, q, <<>>, 0) BY DEF InPage
  <2>4. r.adj \subseteq Made(p) BY <2>3, <1>2 DEF Gestures, ToldOf
  <2> QED BY <2>1, <2>2, <2>3, <2>4, <1>2 DEF Gestures
<1>11. Dragged(r, q, <<>>, 0, t)
  <2>1. Dragged(p, q, <<>>, 0, t) BY DEF InPage
  <2>2. CASE r.adj = p.adj BY <2>1, <2>2, <1>2, <1>3 DEF Dragged
  <2>3. CASE r.adj = doc.global BY <2>1, <2>3, <1>2, <1>3 DEF Dragged, ToldOf
  <2> QED BY <2>2, <2>3, <1>2
<1>12. Depths(r, q, <<>>, 0, t) BY <1>2, SameParts DEF InPage
<1>13. Alone(r, q, <<>>, 0, t) BY <1>2, SameParts DEF InPage
<1>14. Strokes(r, q, <<>>, 0, t, FALSE)
  <2>1. Strokes(p, q, <<>>, 0, t, FALSE) BY DEF InPage
  <2> SUFFICES ASSUME Now(p), "failed" \notin t, "overtaken" \notin t PROVE Strokes(r, q, <<>>, 0, t, FALSE)
    BY <1>3 DEF Strokes
  <2>2. ASSUME Spots(p, q, <<>>, 0) = {}, r.rev = server.rev PROVE r.locals = server.local
    <3>1. Number(p, q, <<>>, 0) = 0 BY <2>2, FS_EmptySet DEF Number
    <3>2. p.depth <= 0 BY <3>1 DEF InPage, Depths
    <3>3. p.depth \in Nat BY <1>1 DEF Page
    <3>4. ~(p.depth > 0) BY <3>2, <3>3
    <3> QED BY <3>4, <2>2, <1>2 DEF ToldOf
  <2>3. ASSUME r.depth > 0
        PROVE  /\ \A i, k \in Nat : LaterLocal(r, q, <<>>, 0, i, k) => Item(q, <<>>, i, k).value = r.locals
               /\ \A i \in DOMAIN q : Newest(r, q, i) =>
                    q[i].value = r.locals \/ \E j, l \in Nat : LaterLocal(r, q, <<>>, 0, j, l)
    BY <2>1, <2>3, <1>2, <1>3 DEF Strokes
  <2> QED BY <2>2, <2>3, <1>3 DEF Strokes
<1>15. InPage(r, q, <<>>, 0, t, FALSE)
  BY <1>4, <1>5, <1>6, <1>7, <1>8, <1>9, <1>10, <1>11, <1>12, <1>13, <1>14 DEF InPage
<1>16. Ready(r, c, t, FALSE)
  <2>1. p.depth \in Nat BY <1>1 DEF Page
  <2>2. Now(p) => Kept(r, c) BY <2>1, <1>2, <1>20 DEF Kept, ToldOf
  <2>3. Now(p) /\ c.gen = p.gen /\ r.rev = server.rev => r.adj = server.global BY <1>2 DEF ToldOf
  <2> QED BY <2>2, <2>3, <1>2, <1>3, <1>20 DEF Ready
<1> QED BY <1>15, <1>16 DEF r, c

\* A command is pressed, or a gesture ends.
LEMMA HandCommand ==
  ASSUME NEW p, NEW q, NEW t, NEW d, InPage(p, q, <<>>, 0, t, d),
         NEW r \in Page, r.sid = p.sid, r.rev = p.rev, r.adj = p.adj, r.dirty = p.dirty, r.gen = p.gen,
         r.held = p.held, r.group = p.group, r.seq = p.seq, r.drags = p.drags,
         NEW c \in Waiting, c.sid = p.sid, c.seen = p.adj,
         c.type = "local" => r.depth = p.depth + 1 /\ c.value = r.locals,
         c.type # "local" => r.depth = p.depth /\ r.locals = p.locals,
         NEW s, t \subseteq s,
         "overtaken" \notin s => \A i \in DOMAIN q : \A k \in DOMAIN q[i].after : q[i].after[k].type = "end"
  PROVE  InPage(r, q, <<c>>, 0, s, d)
<1> DEFINE w == <<c>>
<1>0. InPage(p, q, <<>>, 0, s, d) BY Weaker
<1>1. p \in Page /\ q \in Seq(Commands) BY DEF InPage, Shaped
<1>2. c \in Ends \cup Waiting /\ c.type \in {"local", "undo", "redo"} BY DEF Waiting
<1>3. w \in Seq(Ends \cup Waiting) /\ w[1] = c /\ Hand(w, 0) = {1} BY <1>2, OneIs
<1>4. HandPlaced(p, r, q, w, c) BY <1>1, <1>2, HandPlaces
<1>5. SamePhoto(p, r, q) BY SamePhotoIs
<1>6. (Now(r) <=> Now(p)) /\ Pending(r, q) = Pending(p, q) /\ (\A i : Values(r, q, i) = Values(p, q, i))
      /\ Coming(r, q) = Coming(p, q)
  BY <1>5 DEF SamePhoto
<1> HIDE DEF w
<1>7. ASSUME "overtaken" \notin s, NEW i, NEW k PROVE ~Later(p, q, <<>>, 0, i, k)
  BY <1>7, HandOfNone DEF Later, Goes
<1>8. \A i, k \in Nat : Later(r, q, w, 0, i, k) <=> (Later(p, q, <<>>, 0, i, k) \/ (i = 0 /\ k = 1 /\ Goes(c, p.sid)))
  BY <1>4 DEF HandPlaced
<1>9. \A i, k \in Nat : Later(r, q, w, 0, i, k) => Item(q, w, i, k) = IF i = 0 THEN c ELSE Item(q, <<>>, i, k)
  BY <1>4 DEF HandPlaced
<1>10. \A i, k \in Nat : Spot(r, q, w, 0, i, k) <=> (Spot(p, q, <<>>, 0, i, k) \/ (i = 0 /\ k = 1 /\ LocalOf(c, p.sid)))
  BY <1>4 DEF HandPlaced
<1>a. Shaped(r, q, w) BY <1>1, <1>3 DEF Shaped
<1>b. Sessions(r, q, w, 0)
  <2>1. p.sid \in Nat BY <1>1 DEF Page
  <2>2. Sessions(p, q, <<>>, 0) BY DEF InPage
  <2> QED BY <2>1, <2>2, <1>3 DEF Sessions
<1>c. Generations(r, q) BY <1>6 DEF InPage, Generations
<1>d. Showing(r, q) BY <1>6 DEF InPage, Showing
<1>f. Unsaved(r, q, s) BY <1>0, <1>6 DEF InPage, Unsaved
<1>e. Undos(r, q, w, 0, s)
  <2>1. Undos(p, q, <<>>, 0, s) BY <1>0 DEF InPage
  <2>2. Unsaved(p, q, s) BY <1>0 DEF InPage
  <2> SUFFICES ASSUME Now(p), "failed" \notin s PROVE Undos(r, q, w, 0, s) BY <1>6 DEF Undos
  <2>3. c.seen \subseteq server.ever \cup Coming(p, q) \cup (IF p.dirty THEN p.adj ELSE {})
    <3>1. CASE p.dirty BY <3>1
    <3>2. CASE ~p.dirty BY <3>2, <2>2 DEF Unsaved
    <3> QED BY <3>1, <3>2
  <2>4. \A i \in DOMAIN q :
       /\ UndoOf(q[i], p.sid) => q[i].seen \subseteq server.ever \cup Values(p, q, i)
       /\ \A k \in DOMAIN q[i].after :
            UndoOf(q[i].after[k], p.sid) => q[i].after[k].seen \subseteq server.ever \cup Values(p, q, i)
    BY <2>1 DEF Undos
  <2> QED BY <2>3, <2>4, <1>3, <1>6 DEF Undos
<1>g. Gestures(r, q, w, 0)
  <2>1. Made(r) = Made(p) BY DEF Made
  <2>2. \A x : Gone(r, x) <=> Gone(p, x) BY DEF Gone
  <2>3. Gone(p, c) BY <1>2 DEF Gone
  <2>4. Gestures(p, q, <<>>, 0) BY DEF InPage
  <2> QED BY <2>1, <2>2, <2>3, <2>4, <1>3 DEF Gestures
<1>h. Dragged(r, q, w, 0, s)
  <2>1. Dragged(p, q, <<>>, 0, s) BY <1>0 DEF InPage
  <2>2. ~EndWaits(<<>>, 0) BY HandOfNone DEF EndWaits
  <2> QED BY <2>1, <2>2, <1>6 DEF Dragged
<1>i. Depths(r, q, w, 0, s)
  <2>1. Depths(p, q, <<>>, 0, s) BY <1>0 DEF InPage
  <2>2. p.depth \in Nat BY <1>1 DEF Page
  <2>3. /\ Number(r, q, w, 0) \in Nat /\ Number(p, q, <<>>, 0) \in Nat
        /\ LocalOf(c, p.sid) => Number(r, q, w, 0) = Number(p, q, <<>>, 0) + 1
        /\ ~LocalOf(c, p.sid) => Number(r, q, w, 0) = Number(p, q, <<>>, 0)
    BY <1>4 DEF HandPlaced
  <2>4. LocalOf(c, p.sid) <=> c.type = "local" BY DEF LocalOf
  <2>5. MineHand(w, 0, r.sid) BY <1>3 DEF MineHand
  <2>6. r.depth <= Number(r, q, w, 0)
    <3>1. CASE c.type = "local" BY <3>1, <2>1, <2>2, <2>3, <2>4 DEF Depths
    <3>2. CASE c.type # "local" BY <3>2, <2>1, <2>2, <2>3, <2>4 DEF Depths
    <3> QED BY <3>1, <3>2
  <2>7. ASSUME "inherited" \notin s PROVE r.depth = Number(r, q, w, 0) /\ Mine(q, r.sid)
    <3>0. p.depth = Number(p, q, <<>>, 0) /\ Mine(q, p.sid) BY <2>1, <2>7 DEF Depths
    <3>1. CASE c.type = "local" BY <3>0, <3>1, <2>3, <2>4
    <3>2. CASE c.type # "local" BY <3>0, <3>2, <2>3, <2>4
    <3> QED BY <3>0, <3>1, <3>2
  <2> QED BY <2>5, <2>6, <2>7 DEF Depths
<1>j. Alone(r, q, w, 0, s)
  <2> SUFFICES ASSUME "overtaken" \notin s, NEW i \in Nat, NEW k \in Nat, NEW j \in Nat, NEW l \in Nat,
                      Later(r, q, w, 0, i, k), Later(r, q, w, 0, j, l)
               PROVE  i = j /\ k = l
    BY DEF Alone
  <2> QED BY <1>7, <1>8
<1>k. Strokes(r, q, w, 0, s, d)
  <2>1. Strokes(p, q, <<>>, 0, s, d) BY <1>0 DEF InPage
  <2> SUFFICES ASSUME Now(p), "failed" \notin s, "overtaken" \notin s, ~d PROVE Strokes(r, q, w, 0, s, d)
    BY <1>6 DEF Strokes
  <2>2. \A i, k \in Nat : Later(r, q, w, 0, i, k) <=> (i = 0 /\ k = 1) BY <1>2, <1>7, <1>8 DEF Goes
  <2>3. Item(q, w, 0, 1) = c BY <1>3 DEF Item
  <2>4. CASE c.type = "local"
    <3>1. Spot(r, q, w, 0, 0, 1) BY <2>4, <1>10 DEF LocalOf
    <3>2. Spots(r, q, w, 0) # {} BY <3>1, SpotIn
    <3>3. LaterLocal(r, q, w, 0, 0, 1) BY <2>2, <2>3, <2>4 DEF LaterLocal
    <3>4. \A i, k \in Nat : LaterLocal(r, q, w, 0, i, k) => i = 0 /\ k = 1 BY <2>2 DEF LaterLocal
    <3>5. \A i, k \in Nat : LaterLocal(r, q, w, 0, i, k) => Item(q, w, i, k).value = r.locals
      BY <2>3, <2>4, <3>4
    <3>6. \E j, l \in Nat : LaterLocal(r, q, w, 0, j, l) BY <3>3
    <3> QED BY <3>2, <3>5, <3>6 DEF Strokes
  <2>5. CASE c.type # "local"
    <3>1. \A i, k \in Nat : Spot(p, q, <<>>, 0, i, k) => Spot(r, q, w, 0, i, k) BY <1>10
    <3>2. ASSUME Spots(r, q, w, 0) = {} PROVE Spots(p, q, <<>>, 0) = {}
      <4>1. \A i, k \in Nat : Spot(p, q, <<>>, 0, i, k) => \E j, l \in Nat : Spot(r, q, w, 0, j, l) BY <3>1
      <4> QED BY <4>1, <3>2, NoSpots
    <3>3. \A i, k \in Nat : ~LaterLocal(r, q, w, 0, i, k) BY <2>2, <2>3, <2>5 DEF LaterLocal
    <3>4. \A j, l \in Nat : ~LaterLocal(p, q, <<>>, 0, j, l) BY <1>7 DEF LaterLocal
    <3>5. \A i : Newest(r, q, i) <=> Newest(p, q, i) BY <1>5 DEF SamePhoto
    <3>6. r.depth > 0 => \A i \in DOMAIN q : Newest(r, q, i) => q[i].value = r.locals
      BY <2>1, <2>5, <3>4, <3>5 DEF Strokes
    <3>7. Spots(r, q, w, 0) = {} /\ r.rev = server.rev => r.locals = server.local
      BY <2>1, <2>5, <3>2 DEF Strokes
    <3> QED BY <3>3, <3>6, <3>7 DEF Strokes
  <2> QED BY <2>4, <2>5
<1>z. InPage(r, q, w, 0, s, d)
  BY <1>a, <1>b, <1>c, <1>d, <1>e, <1>f, <1>g, <1>h, <1>i, <1>j, <1>k DEF InPage
<1> QED BY <1>z DEF w

LEMMA HandEnd ==
  ASSUME NEW p, NEW q, NEW t, NEW d, InPage(p, q, <<>>, 0, t, d), p.held
  PROVE  InPage([p EXCEPT !.held = FALSE], q, <<[type |-> "end", group |-> p.group]>>, 0, t, d)
<1> DEFINE c == [type |-> "end", group |-> p.group]
           w == <<c>>
           r == [p EXCEPT !.held = FALSE]
<1>1. p \in Page /\ q \in Seq(Commands) BY DEF InPage, Shaped
<1>2. c \in Ends \cup Waiting /\ c.type = "end" /\ c.group = p.group
  <2>1. p.group \in Nat BY <1>1 DEF Page
  <2> QED BY <2>1 DEF Ends
<1>20. /\ r \in Page /\ r.sid = p.sid /\ r.rev = p.rev /\ r.adj = p.adj /\ r.dirty = p.dirty /\ r.gen = p.gen
       /\ r.held = FALSE /\ r.group = p.group /\ r.seq = p.seq /\ r.drags = p.drags /\ r.depth = p.depth
       /\ r.locals = p.locals
  BY <1>1 DEF Page
<1> HIDE DEF c, r
<1>3. w \in Seq(Ends \cup Waiting) /\ w[1] = c /\ Hand(w, 0) = {1} BY <1>2, OneIs
<1>4. HandPlaced(p, r, q, w, c) BY <1>1, <1>2, <1>20, HandPlaces
<1>50. r.sid = p.sid BY <1>20
<1>5. SamePhoto(p, r, q) BY <1>50, SamePhotoIs
<1>6. (Now(r) <=> Now(p)) /\ Pending(r, q) = Pending(p, q) /\ (\A i : Values(r, q, i) = Values(p, q, i))
      /\ Coming(r, q) = Coming(p, q)
  BY <1>5 DEF SamePhoto
<1> HIDE DEF w
<1>7. ~Goes(c, p.sid) /\ ~LocalOf(c, p.sid) BY <1>2 DEF Goes, LocalOf
<1>8. \A i, k \in Nat : Later(r, q, w, 0, i, k) <=> Later(p, q, <<>>, 0, i, k)
  BY <1>4, <1>7 DEF HandPlaced
<1>9. ASSUME NEW i \in Nat, NEW k \in Nat, Later(r, q, w, 0, i, k) PROVE Item(q, w, i, k) = Item(q, <<>>, i, k)
  <2>1. i # 0
    <3>1. Later(p, q, <<>>, 0, i, k) BY <1>8, <1>9
    <3>2. 0 \notin DOMAIN q BY <1>1
    <3> QED BY <3>1, <3>2, HandOfNone DEF Later
  <2> QED BY <2>1 DEF Item
<1>10. \A i, k \in Nat : Spot(r, q, w, 0, i, k) <=> Spot(p, q, <<>>, 0, i, k)
  BY <1>4, <1>7 DEF HandPlaced
<1>11. \A i, k \in Nat : LaterLocal(r, q, w, 0, i, k) <=> LaterLocal(p, q, <<>>, 0, i, k)
  BY <1>8, <1>9 DEF LaterLocal
<1>a. Shaped(r, q, w) BY <1>1, <1>3, <1>20 DEF Shaped
<1>b. Sessions(r, q, w, 0) BY <1>2, <1>3, <1>20 DEF InPage, Sessions
<1>c. Generations(r, q) BY <1>6, <1>20 DEF InPage, Generations
<1>d. Showing(r, q) BY <1>6, <1>20 DEF InPage, Showing
<1>e. Undos(r, q, w, 0, t)
  <2>1. Undos(p, q, <<>>, 0, t) BY DEF InPage
  <2>2. ~UndoOf(c, p.sid) BY <1>2 DEF UndoOf
  <2> QED BY <2>1, <2>2, <1>3, <1>6, <1>20 DEF Undos
<1>f. Unsaved(r, q, t) BY <1>6, <1>20 DEF InPage, Unsaved
<1>g. Gestures(r, q, w, 0)
  <2>1. Made(r) = Made(p) BY <1>20 DEF Made
  <2>4. Gestures(p, q, <<>>, 0) BY DEF InPage
  <2>2. \A x : Gone(p, x) => Gone(r, x) BY <1>20 DEF Gone
  <2>3. Gone(r, c) BY <2>4, <1>2, <1>20 DEF Gone, Gestures
  <2> QED BY <2>1, <2>2, <2>3, <2>4, <1>3, <1>20 DEF Gestures
<1>h. Dragged(r, q, w, 0, t)
  <2>1. Dragged(p, q, <<>>, 0, t) BY DEF InPage
  <2>2. EndWaits(w, 0) BY <1>2, <1>3 DEF EndWaits
  <2>3. ~EndWaits(<<>>, 0) BY HandOfNone DEF EndWaits
  <2> QED BY <2>1, <2>2, <2>3, <1>6, <1>20 DEF Dragged
<1>i. Depths(r, q, w, 0, t)
  <2>1. Depths(p, q, <<>>, 0, t) BY DEF InPage
  <2>3. Number(r, q, w, 0) = Number(p, q, <<>>, 0) BY <1>4, <1>7 DEF HandPlaced
  <2>5. MineHand(w, 0, r.sid) BY <1>2, <1>3 DEF MineHand
  <2> QED BY <2>1, <2>3, <2>5, <1>20 DEF Depths
<1>j. Alone(r, q, w, 0, t) BY <1>6, <1>8 DEF InPage, Alone
<1>k. Strokes(r, q, w, 0, t, d)
  <2>1. Strokes(p, q, <<>>, 0, t, d) BY DEF InPage
  <2> SUFFICES ASSUME Now(p), "failed" \notin t, "overtaken" \notin t, ~d PROVE Strokes(r, q, w, 0, t, d)
    BY <1>6 DEF Strokes
  <2>2. ASSUME Spots(r, q, w, 0) = {}, r.rev = server.rev PROVE r.locals = server.local
    <3>1. \A i, k \in Nat : Spot(p, q, <<>>, 0, i, k) => \E j, l \in Nat : Spot(r, q, w, 0, j, l) BY <1>10
    <3>2. Spots(p, q, <<>>, 0) = {} BY <2>2, <3>1, NoSpots
    <3> QED BY <2>1, <2>2, <3>2, <1>20 DEF Strokes
  <2>3. \A i : Newest(r, q, i) <=> Newest(p, q, i) BY <1>5 DEF SamePhoto
  <2>4. ASSUME r.depth > 0, NEW i \in Nat, NEW k \in Nat, LaterLocal(r, q, w, 0, i, k)
        PROVE  Item(q, w, i, k).value = r.locals
    <3>1. LaterLocal(p, q, <<>>, 0, i, k) BY <2>4, <1>11
    <3>2. Item(q, w, i, k) = Item(q, <<>>, i, k) BY <2>4, <1>9 DEF LaterLocal
    <3> QED BY <3>1, <3>2, <2>1, <2>4, <1>20 DEF Strokes
  <2>5. r.depth > 0 => \A i \in DOMAIN q : Newest(r, q, i) =>
            q[i].value = r.locals \/ \E j, l \in Nat : LaterLocal(r, q, w, 0, j, l)
    BY <2>1, <2>3, <1>11, <1>20 DEF Strokes
  <2> QED BY <2>2, <2>4, <2>5 DEF Strokes
<1>z. InPage(r, q, w, 0, t, d)
  BY <1>a, <1>b, <1>c, <1>d, <1>e, <1>f, <1>g, <1>h, <1>i, <1>j, <1>k DEF InPage
<1> QED BY <1>z DEF w, c, r

\* All of QueueEdit.
QueueTo(p, q, t, d, s) ==
  /\ InPage(s.page, s.queue, <<>>, 0, t, d)
  /\ SamePage(p, s.page)
  /\ Ahead(q, s.queue)

LEMMA MoveQueueEdit ==
  ASSUME NEW p, NEW q, NEW t, NEW d, NEW c \in Waiting, InPage(p, q, <<c>>, 0, t, d), c.sid = p.sid
  PROVE  QueueTo(p, q, t, d, QueueEdit(p, q, c))
<1> DEFINE w == <<c>>
<1>1. p \in Page /\ q \in Seq(Commands) BY DEF InPage, Shaped
<1>2. c \in Ends \cup Waiting /\ c \in Commands /\ c.type # "end" BY DEF Waiting, Commands
<1>3. w \in Seq(Ends \cup Waiting) /\ w[1] = c /\ Len(w) = 1 /\ DOMAIN w = {1} BY <1>2, OneIs
<1>4. QueueEdit(p, q, c) = IF p.dirty THEN Sync(p, q, w) ELSE [page |-> p, queue |-> Append(q, c)] BY DEF QueueEdit
<1>5. InPage(p, q, w, 0, t, d) OBVIOUS
<1> HIDE DEF w
<1>6. CASE p.dirty
  <2>1. \A k \in DOMAIN w : w[k].type # "end" => w[k].sid = p.sid BY <1>3
  <2>2. SyncTo(p, q, w, t, d, Sync(p, q, w)) BY <2>1, <1>5, MoveSync
  <2>3. QueueTo(p, q, t, d, Sync(p, q, w)) BY <2>2 DEF SyncTo, QueueTo
  <2> QED BY <2>3, <1>4, <1>6
<1>7. CASE ~p.dirty
  <2> DEFINE u == Append(q, c)
             s == [page |-> p, queue |-> u]
  <2>1. 1 \in 1..Len(w) /\ 1 - 1 = 0 BY <1>3
  <2>2. InPage(p, q, w, 1 - 1, t, d) BY <2>1, <1>5
  <2>3. InPage(p, Append(q, w[1]), w, 1, t, d) BY <2>1, <2>2, <1>2, <1>3, <1>7, MoveAppend
  <2>4. InPage(p, u, w, Len(w), t, d) BY <2>3, <1>3
  <2>5. InPage(p, u, <<>>, 0, t, d) BY <2>4, MoveEmptied
  <2>6. Ahead(q, q) BY AheadSelf
  <2>7. Ahead(q, u) BY <2>6, <1>1, <1>2, AheadAppend
  <2>8. SamePage(p, p) BY DEF SamePage
  <2> HIDE DEF u
  <2>9. s.page = p /\ s.queue = u OBVIOUS
  <2> HIDE DEF s
  <2>10. QueueTo(p, q, t, d, s) BY <2>5, <2>7, <2>8, <2>9 DEF QueueTo
  <2> QED BY <2>10, <1>4, <1>7 DEF s, u
<1> QED BY <1>6, <1>7

\* What the invariant says of the page as it is, and of the page of the next state.
InPageNow == InPage(page, queue, <<>>, 0, trouble, Doomed)

LEMMA Became ==
  ASSUME NEW x, NEW y, NEW s, NEW d, page' = x, queue' = y, trouble' = s, server' = server,
         InPage(x, y, <<>>, 0, s, d), "failed" \in s \/ (d => Doomed')
  PROVE  InPageNow'
<1>1. Shaped(page, queue, <<>>)' BY DEF InPage, Shaped
<1>2. Sessions(page, queue, <<>>, 0)' BY DEF InPage, Sessions, Hand
<1>3. Generations(page, queue)' BY DEF InPage, Generations, Now, Pending
<1>4. Showing(page, queue)' BY DEF InPage, Showing, Now, Pending
<1>5. Undos(page, queue, <<>>, 0, trouble)' BY DEF InPage, Undos, Now, Pending, UndoOf, Hand, Coming, Values
<1>6. Unsaved(page, queue, trouble)' BY DEF InPage, Unsaved, Now, Coming, Values, Pending
<1>7. Gestures(page, queue, <<>>, 0)' BY DEF InPage, Gestures, Made, Gone, Hand
<1>8. Dragged(page, queue, <<>>, 0, trouble)' BY DEF InPage, Dragged, Now, Coming, Values, Pending, EndWaits, Hand
<1>9. Depths(page, queue, <<>>, 0, trouble)'
  BY DEF InPage, Depths, Number, Spots, Spot, LocalOf, Hand, Mine, MineHand
<1>10. Alone(page, queue, <<>>, 0, trouble)' BY DEF InPage, Alone, Now, Later, Goes, Hand
<1>11. Strokes(page, queue, <<>>, 0, trouble, Doomed)'
  <2>1. Strokes(x, y, <<>>, 0, s, d) BY DEF InPage
  <2>2. Strokes(x, y, <<>>, 0, s, Doomed') BY <2>1 DEF Strokes
  <2> HIDE DEF Doomed
  <2> QED BY <2>2 DEF Strokes, Now, Spots, Spot, LocalOf, Hand, LaterLocal, Later, Goes, Item, Newest
<1> QED BY <1>1, <1>2, <1>3, <1>4, <1>5, <1>6, <1>7, <1>8, <1>9, <1>10, <1>11 DEF InPageNow, InPage

\* A gesture begins; a slider moves.
LEMMA MovePress ==
  ASSUME NEW p, NEW q, NEW t, NEW d, InPage(p, q, <<>>, 0, t, d), ~p.held
  PROVE  InPage([p EXCEPT !.held = TRUE, !.seq = p.seq + 1, !.group = p.seq + 1], q, <<>>, 0, t, d)
<1> DEFINE m == p.seq + 1
           r == [p EXCEPT !.held = TRUE, !.seq = m, !.group = m]
<1>1. p \in Page /\ q \in Seq(Commands) BY DEF InPage, Shaped
<1>3. p.seq \in Nat /\ p.group \in Nat BY <1>1 DEF Page
<1>30. m \in Nat /\ m = p.seq + 1 BY <1>3
<1> HIDE DEF m
<1>20. /\ r \in Page /\ r.sid = p.sid /\ r.rev = p.rev /\ r.adj = p.adj /\ r.dirty = p.dirty /\ r.gen = p.gen
      /\ r.held = TRUE /\ r.group = m /\ r.seq = m /\ r.drags = p.drags /\ r.depth = p.depth
      /\ r.locals = p.locals
  BY <1>1, <1>30 DEF Page
<1>2. /\ r \in Page /\ r.sid = p.sid /\ r.rev = p.rev /\ r.adj = p.adj /\ r.dirty = p.dirty /\ r.gen = p.gen
      /\ r.held = TRUE /\ r.group = p.seq + 1 /\ r.seq = p.seq + 1 /\ r.drags = p.drags /\ r.depth = p.depth
      /\ r.locals = p.locals
  BY <1>20, <1>30
<1> HIDE DEF r
<1>4. /\ Sessions(r, q, <<>>, 0) /\ Generations(r, q) /\ Showing(r, q) /\ Undos(r, q, <<>>, 0, t) /\ Unsaved(r, q, t)
      /\ Depths(r, q, <<>>, 0, t) /\ Alone(r, q, <<>>, 0, t) /\ Strokes(r, q, <<>>, 0, t, d)
  <2>1. r.sid = p.sid BY <1>2
  <2>2. Sessions(p, q, <<>>, 0) /\ Alone(p, q, <<>>, 0, t) /\ Generations(p, q) /\ Showing(p, q)
        /\ Undos(p, q, <<>>, 0, t) /\ Unsaved(p, q, t) /\ Depths(p, q, <<>>, 0, t) /\ Strokes(p, q, <<>>, 0, t, d)
    BY DEF InPage
  <2> QED BY <2>1, <2>2, <1>2, SameParts
<1>5. Gestures(r, q, <<>>, 0)
  <2>1. Made(r) = Made(p) BY <1>2 DEF Made
  <2>2. Gestures(p, q, <<>>, 0) BY DEF InPage
  <2>3. ASSUME NEW i \in DOMAIN q, NEW k \in DOMAIN q[i].after PROVE Gone(r, q[i].after[k])
    <3>1. Gone(p, q[i].after[k]) BY <2>2 DEF Gestures
    <3>2. q[i].after[k].type = "end" => q[i].after[k].group \in Nat
      <4>1. q[i] \in Commands BY <1>1
      <4>2. q[i].after[k] \in Ends \cup Waiting BY <4>1, AfterIs
      <4> QED BY <4>2, WaitingIs
    <3> QED BY <3>1, <3>2, <1>2, <1>3 DEF Gone
  <2> QED BY <2>1, <2>2, <2>3, <1>2, <1>3, HandOfNone DEF Gestures
<1>6. Dragged(r, q, <<>>, 0, t)
  <2>1. Dragged(p, q, <<>>, 0, t) BY DEF InPage
  <2>2. ~EndWaits(<<>>, 0) BY HandOfNone DEF EndWaits
  <2>3. r.sid = p.sid BY <1>2
  <2>4. SamePhoto(p, r, q) BY <2>3, SamePhotoIs
  <2> QED BY <2>1, <2>2, <2>4, <1>2 DEF Dragged, SamePhoto
<1>7. Shaped(r, q, <<>>) BY <1>1, <1>2 DEF Shaped
<1>8. InPage(r, q, <<>>, 0, t, d) BY <1>4, <1>5, <1>6, <1>7 DEF InPage
<1> QED BY <1>8 DEF r, m

LEMMA MoveSlide ==
  ASSUME NEW p, NEW q, NEW t, NEW d, InPage(p, q, <<>>, 0, t, d),
         NEW e \in GlobalIds, e = Len(p.drags) + 1, e <= Slides, Slides \in Nat
  PROVE  InPage([p EXCEPT !.adj = @ \cup {e}, !.dirty = TRUE, !.gen = @ + 1,
                          !.drags = Append(@, IF p.held THEN p.seq ELSE NoGroup)], q, <<>>, 0, t, d)
<1> DEFINE g == IF p.held THEN p.seq ELSE NoGroup
           a == p.adj \cup {e}
           v == Append(p.drags, g)
           m == p.gen + 1
           r == [p EXCEPT !.adj = a, !.dirty = TRUE, !.gen = m, !.drags = v]
<1>1. p \in Page /\ q \in Seq(Commands) BY DEF InPage, Shaped
<1>3. p.seq \in Nat /\ p.gen \in Nat /\ p.drags \in Seq(Nat) /\ p.adj \in SUBSET GlobalIds BY <1>1 DEF Page
<1>4. g \in Nat /\ (p.held => g = p.seq) /\ (~p.held => g = NoGroup) BY <1>3 DEF NoGroup
<1> HIDE DEF g
<1>5. v \in Seq(Nat) /\ Len(v) = Len(p.drags) + 1 /\ v[e] = g /\ Len(p.drags) \in Nat
      /\ \A x \in 1..Len(p.drags) : v[x] = p.drags[x]
  <2>1. Append(p.drags, g)[Len(p.drags) + 1] = g BY <1>3, <1>4
  <2> QED BY <1>3, <1>4, <2>1
<1>6. a \in SUBSET GlobalIds BY <1>3
<1>60. DOMAIN v = 1..Len(v) /\ DOMAIN p.drags = 1..Len(p.drags) BY <1>3, <1>5
<1>61. m \in Nat /\ m = p.gen + 1 BY <1>3
<1> HIDE DEF a, v, m
<1>2. /\ r \in Page /\ r.sid = p.sid /\ r.rev = p.rev /\ r.adj = a /\ r.dirty = TRUE /\ r.gen = m
      /\ r.held = p.held /\ r.group = p.group /\ r.seq = p.seq /\ r.drags = v /\ r.depth = p.depth
      /\ r.locals = p.locals
  BY <1>1, <1>5, <1>6, <1>61 DEF Page
<1> HIDE DEF r
<1>7. /\ Sessions(r, q, <<>>, 0) /\ Depths(r, q, <<>>, 0, t) /\ Alone(r, q, <<>>, 0, t) /\ Strokes(r, q, <<>>, 0, t, d)
  <2>1. r.sid = p.sid BY <1>2
  <2>2. Sessions(p, q, <<>>, 0) /\ Alone(p, q, <<>>, 0, t)
        /\ Depths(p, q, <<>>, 0, t) /\ Strokes(p, q, <<>>, 0, t, d)
    BY DEF InPage
  <2> QED BY <2>1, <2>2, <1>2, SameParts
<1>8. SamePhoto(p, r, q)
  <2>3. r.sid = p.sid BY <1>2
  <2> QED BY <2>3, SamePhotoIs
<1>9. Generations(r, q)
  <2>1. Generations(p, q) BY DEF InPage
  <2>2. \A i \in Pending(p, q) : q[i].gen \in Nat
    <3>1. \A i \in DOMAIN q : q[i] \in Commands BY <1>1
    <3> QED BY <3>1, CommandIs DEF Pending
  <2> SUFFICES ASSUME Now(p), NEW i \in Pending(p, q) PROVE q[i].gen <= r.gen /\ q[i].gen # r.gen
    BY <1>2, <1>8 DEF Generations, SamePhoto
  <2>3. q[i].gen <= p.gen /\ q[i].gen \in Nat BY <2>1, <2>2 DEF Generations
  <2> QED BY <2>3, <1>2, <1>3, <1>61
<1>10. Showing(r, q) /\ Unsaved(r, q, t) BY <1>2 DEF Showing, Unsaved
<1>11. Undos(r, q, <<>>, 0, t)
  <2>1. Undos(p, q, <<>>, 0, t) BY DEF InPage
  <2> QED BY <2>1, <1>2, <1>8, HandOfNone DEF Undos, SamePhoto
<1>12. e \notin Made(p) /\ Made(r) = Made(p) \cup {e}
  <2>1. Made(p) = (1..Len(p.drags)) \cup ((Slides + 1)..(Slides + Others)) BY DEF Made
  <2>2. Made(r) = (1..(Len(p.drags) + 1)) \cup ((Slides + 1)..(Slides + Others)) BY <1>2, <1>5 DEF Made
  <2>3. 1..(Len(p.drags) + 1) = (1..Len(p.drags)) \cup {e} BY <1>5
  <2>4. e \notin 1..Len(p.drags) BY <1>5
  <2>5. e \notin (Slides + 1)..(Slides + Others) OBVIOUS
  <2> QED BY <2>1, <2>2, <2>3, <2>4, <2>5
<1>13. Gestures(r, q, <<>>, 0)
  <2>1. Gestures(p, q, <<>>, 0) BY DEF InPage
  <2>2. \A x : Gone(r, x) <=> Gone(p, x) BY <1>2 DEF Gone
  <2>3. r.adj \subseteq Made(r) BY <2>1, <1>2, <1>12 DEF Gestures, a
  <2>4. \A i \in DOMAIN q : q[i].type = "global" => q[i].value \subseteq Made(r) BY <2>1, <1>12 DEF Gestures
  <2> QED BY <2>1, <2>2, <2>3, <2>4, <1>2, HandOfNone DEF Gestures
<1>14. Dragged(r, q, <<>>, 0, t)
  <2>1. Dragged(p, q, <<>>, 0, t) /\ Gestures(p, q, <<>>, 0) BY DEF InPage
  <2>2. ~EndWaits(<<>>, 0) BY HandOfNone DEF EndWaits
  <2>3. \A x \in DOMAIN v : x = e \/ (x \in DOMAIN p.drags /\ v[x] = p.drags[x]) BY <1>5, <1>60
  <2> SUFFICES ASSUME Now(p), "failed" \notin t
               PROVE  /\ \A x \in (a \cap DOMAIN v) \ (server.ever \cup Coming(p, q)) :
                           v[x] = NoGroup \/ ((p.held \/ EndWaits(<<>>, 0)) /\ v[x] = p.group)
                      /\ \A i \in Pending(p, q) :
                           \A x \in (q[i].value \cap DOMAIN v) \ (server.ever \cup Values(p, q, i - 1)) :
                             v[x] \in {NoGroup, q[i].group}
    BY <1>2, <1>8 DEF Dragged, SamePhoto
  <2>4. ASSUME NEW x \in (a \cap DOMAIN v) \ (server.ever \cup Coming(p, q))
        PROVE  v[x] = NoGroup \/ (p.held /\ v[x] = p.group)
    <3>1. CASE x = e
      <4>1. p.held => p.group = p.seq BY <2>1 DEF Gestures
      <4> QED BY <3>1, <4>1, <1>4, <1>5
    <3>2. CASE x # e
      <4>1. x \in p.adj BY <3>2 DEF a
      <4> QED BY <3>2, <4>1, <2>1, <2>2, <2>3, <2>4 DEF Dragged
    <3> QED BY <3>1, <3>2
  <2>5. ASSUME NEW i \in Pending(p, q), NEW x \in (q[i].value \cap DOMAIN v) \ (server.ever \cup Values(p, q, i - 1))
        PROVE  v[x] \in {NoGroup, q[i].group}
    <3>1. q[i].value \subseteq Made(p) BY <2>1 DEF Gestures, Pending
    <3>2. x # e BY <3>1, <1>12
    <3> QED BY <3>2, <2>1, <2>3 DEF Dragged
  <2> QED BY <2>4, <2>5
<1>15. Shaped(r, q, <<>>) BY <1>1, <1>2 DEF Shaped
<1>16. InPage(r, q, <<>>, 0, t, d) BY <1>7, <1>9, <1>10, <1>11, <1>13, <1>14, <1>15 DEF InPage
<1>17. r = [p EXCEPT !.adj = @ \cup {e}, !.dirty = TRUE, !.gen = @ + 1,
                     !.drags = Append(@, IF p.held THEN p.seq ELSE NoGroup)]
  BY DEF r, a, v, g, m
<1> QED BY <1>16, <1>17

\* All of Finished.
FinishTo(p, t, s) == InPage(s.page, s.queue, <<>>, 0, t, FALSE) /\ SamePage(p, s.page)

LEMMA SamePageAgain == ASSUME NEW p, NEW r, NEW s, SamePage(p, r), SamePage(r, s) PROVE SamePage(p, s)
BY DEF SamePage

LEMMA MoveFinished ==
  ASSUME NEW p, NEW q, NEW t, NEW d, InPage(p, q, <<>>, 0, t, d), q # <<>>, NEW applied \in BOOLEAN,
         applied => Ready(p, Head(q), t, d) /\ Head(q).sid = p.sid,
         ~applied => "failed" \in t
  PROVE  FinishTo(p, t, Finished(p, q, applied))
<1> DEFINE c == Head(q)
           u == Tail(q)
           h == c.after
           s == Finished(p, q, applied)
<1>1. p \in Page /\ q \in Seq(Commands) BY DEF InPage, Shaped
<1>2. c \in Commands /\ q[1] = c /\ 1 \in DOMAIN q BY <1>1, PopIs
<1>3. s = IF c.type # "global" THEN [page |-> Forget(p, c), queue |-> u]
          ELSE IF c.sid # p.sid THEN Resume(p, u, h, FALSE)
          ELSE IF applied THEN Sync(p, u, h)
          ELSE Resume([p EXCEPT !.dirty = TRUE], u, h, FALSE)
  BY DEF Finished
<1>4. Head(q) = c /\ Tail(q) = u /\ h = c.after OBVIOUS
<1> HIDE DEF c, u, s, h
<1>5. c.type # "global" => h = <<>> BY <1>2, <1>4 DEF Commands, Saves, Waiting
<1>6. SamePage(p, Forget(p, c)) BY <1>1, ForgetIs DEF SamePage
<1>7. c.type # "local" => Forget(p, c) = p BY DEF Forget
<1>8. CASE c.type # "global"
  <2>1. Ready(p, c, t, d)
    <3>1. CASE applied BY <3>1, <1>4
    <3>2. CASE ~applied BY <3>2, <1>8 DEF Ready
    <3> QED BY <3>1, <3>2
  <2>2. InPage(Forget(p, Head(q)), Tail(q), Head(q).after, 0, t, FALSE) BY <2>1, <1>4, MovePop
  <2>3. InPage(Forget(p, c), u, <<>>, 0, t, FALSE) BY <2>2, <1>4, <1>5, <1>8
  <2> DEFINE f == Forget(p, c)
  <2>4. s = [page |-> f, queue |-> u] BY <1>3, <1>8
  <2>40. InPage(f, u, <<>>, 0, t, FALSE) /\ SamePage(p, f) BY <2>3, <1>6
  <2> HIDE DEF f
  <2>5. s.page = f /\ s.queue = u BY <2>4
  <2>6. FinishTo(p, t, s) BY <2>40, <2>5 DEF FinishTo
  <2> QED BY <2>6 DEF s
<1>9. CASE c.type = "global" /\ c.sid # p.sid
  <2>1. ~applied BY <1>4, <1>9
  <2>2. Ready(p, c, t, d) BY <2>1, <1>9 DEF Ready
  <2>3. InPage(Forget(p, Head(q)), Tail(q), Head(q).after, 0, t, FALSE) BY <2>2, <1>4, MovePop
  <2>4. InPage(p, u, h, 0, t, FALSE) BY <2>3, <1>4, <1>7, <1>9
  <2>5. ResumeTo(p, u, t, FALSE, Resume(p, u, h, FALSE)) BY <2>1, <2>4, MoveResume
  <2>6. ResumeTo(p, u, t, FALSE, s) BY <2>5, <1>3, <1>9
  <2>7. FinishTo(p, t, s) BY <2>6 DEF FinishTo, ResumeTo
  <2> QED BY <2>7 DEF s
<1>10. CASE c.type = "global" /\ c.sid = p.sid /\ applied
  <2>1. Ready(p, c, t, d) BY <1>4, <1>10
  <2>3. InPage(Forget(p, Head(q)), Tail(q), Head(q).after, 0, t, FALSE) BY <2>1, <1>4, MovePop
  <2>4. InPage(p, u, h, 0, t, FALSE) BY <2>3, <1>4, <1>7, <1>10
  <2>5. \A k \in DOMAIN h : h[k].type # "end" => h[k].sid = p.sid
    <3>1. Sessions(p, q, <<>>, 0) BY DEF InPage
    <3> QED BY <3>1, <1>2, <1>4, <1>10 DEF Sessions
  <2>6. SyncTo(p, u, h, t, FALSE, Sync(p, u, h)) BY <2>4, <2>5, MoveSync
  <2>7. SyncTo(p, u, h, t, FALSE, s) BY <2>6, <1>3, <1>10
  <2>8. FinishTo(p, t, s) BY <2>7 DEF FinishTo, SyncTo
  <2> QED BY <2>8 DEF s
<1>11. CASE c.type = "global" /\ c.sid = p.sid /\ ~applied
  <2> DEFINE r == [p EXCEPT !.dirty = TRUE]
  <2>1. InPage(r, q, <<>>, 0, t, d) BY <1>11, MoveDirty
  <2>2. r.dirty /\ SamePage(p, r) BY <1>1, DirtyIs DEF SamePage
  <2>20. s = Resume(r, u, h, FALSE) BY <1>3, <1>11
  <2> HIDE DEF r
  <2>3. Ready(r, c, t, d) BY <2>2, <1>11 DEF Ready
  <2>4. InPage(Forget(r, Head(q)), Tail(q), Head(q).after, 0, t, FALSE) BY <2>1, <2>3, <1>4, MovePop
  <2>5. Forget(r, c) = r BY <1>11 DEF Forget
  <2>6. InPage(r, u, h, 0, t, FALSE) BY <2>4, <2>5, <1>4
  <2>7. ResumeTo(r, u, t, FALSE, Resume(r, u, h, FALSE)) BY <2>6, <1>11, MoveResume
  <2>8. ResumeTo(r, u, t, FALSE, s) BY <2>7, <2>20
  <2>9. SamePage(p, s.page) BY <2>2, <2>8, SamePageAgain DEF ResumeTo
  <2>10. FinishTo(p, t, s) BY <2>8, <2>9 DEF FinishTo, ResumeTo
  <2> QED BY <2>10 DEF s
<1> QED BY <1>8, <1>9, <1>10, <1>11

\* Another photo is opened.
Opened(p, s) ==
  [NewPage(s) EXCEPT !.gen = p.gen, !.held = p.held, !.group = p.group, !.seq = p.seq, !.drags = p.drags]

LEMMA OpenedIs ==
  ASSUME NEW p \in Page, NEW s \in Nat
  PROVE  LET r == Opened(p, s)
         IN /\ r \in Page /\ r.sid = s /\ r.rev = 0 /\ r.adj = {} /\ r.locals = {} /\ r.dirty = FALSE /\ r.gen = p.gen
            /\ r.held = p.held /\ r.group = p.group /\ r.seq = p.seq /\ r.depth = 0 /\ r.drags = p.drags
<1> DEFINE r == Opened(p, s)
<1>1. r = [sid |-> s, rev |-> 0, adj |-> {}, locals |-> {}, dirty |-> FALSE, gen |-> p.gen,
           held |-> p.held, group |-> p.group, seq |-> p.seq, depth |-> 0, drags |-> p.drags]
  <2> DEFINE b == NewPage(s)
  <2>1. b = [sid |-> s, rev |-> 0, adj |-> {}, locals |-> {}, dirty |-> FALSE, gen |-> 0,
             held |-> FALSE, group |-> 0, seq |-> 0, depth |-> 0, drags |-> <<>>]
    BY DEF NewPage, NoGroup
  <2>2. r = [b EXCEPT !.gen = p.gen, !.held = p.held, !.group = p.group, !.seq = p.seq, !.drags = p.drags]
    BY DEF Opened
  <2> DEFINE g == p.gen
             l == p.held
             o == p.group
             e == p.seq
             a == p.drags
  <2>3. r = [b EXCEPT !.gen = g, !.held = l, !.group = o, !.seq = e, !.drags = a] BY <2>2
  <2> HIDE DEF b, r, g, l, o, e, a
  <2>4. r = [sid |-> s, rev |-> 0, adj |-> {}, locals |-> {}, dirty |-> FALSE, gen |-> g,
             held |-> l, group |-> o, seq |-> e, depth |-> 0, drags |-> a]
    BY <2>1, <2>3
  <2> QED BY <2>4 DEF g, l, o, e, a
<1>2. /\ p.gen \in Nat /\ p.held \in BOOLEAN /\ p.group \in Nat /\ p.seq \in Nat /\ p.drags \in Seq(Nat) BY DEF Page
<1> HIDE DEF r
<1> QED BY <1>1, <1>2 DEF Page, r

LEMMA MoveOpen ==
  ASSUME NEW p, NEW q, NEW t, NEW d, NEW e, InPage(p, q, <<>>, 0, t, d), p.sid # server.sid, server \in Session, Fresh,
         ~Now(page), NEW s,
         "inherited" \notin s => \A i \in DOMAIN q : ~Pushes(q[i], {"local"})
  PROVE  InPage(Opened(p, server.sid), q, <<>>, 0, s, e)
<1> DEFINE r == Opened(p, server.sid)
<1>1. p \in Page /\ q \in Seq(Commands) BY DEF InPage, Shaped
<1>2. server.sid \in Nat /\ p.sid \in Nat BY <1>1 DEF Session, Page
<1>3. /\ r \in Page /\ r.sid = server.sid /\ r.rev = 0 /\ r.adj = {} /\ r.locals = {} /\ r.dirty = FALSE
      /\ r.gen = p.gen /\ r.held = p.held /\ r.group = p.group /\ r.seq = p.seq /\ r.depth = 0 /\ r.drags = p.drags
  BY <1>1, <1>2, OpenedIs
<1> HIDE DEF r
<1>4. server.global = {} /\ server.local = {} BY DEF Fresh
<1>5. \A i \in DOMAIN q : q[i] \in Commands /\ q[i].sid \in Nat
  <2>1. \A i \in DOMAIN q : q[i] \in Commands BY <1>1
  <2> QED BY <2>1, CommandIs
<1>6. /\ \A i \in DOMAIN q : q[i].sid <= server.sid /\ q[i].sid # server.sid
      /\ \A i \in DOMAIN q : \A k \in DOMAIN q[i].after : q[i].after[k].type # "end" => q[i].after[k].sid # server.sid
      /\ \A i \in DOMAIN q : \A k \in DOMAIN q[i].after : q[i].after[k].type # "end" => q[i].after[k].sid = q[i].sid
  <2>1. Sessions(p, q, <<>>, 0) BY DEF InPage
  <2>2. p.sid < server.sid BY <2>1, <1>2 DEF Sessions
  <2>3. \A i \in DOMAIN q : q[i].sid <= p.sid BY <2>1 DEF Sessions
  <2>4. \A i \in DOMAIN q : q[i].sid <= server.sid /\ q[i].sid # server.sid BY <2>2, <2>3, <1>2, <1>5
  <2> QED BY <2>1, <2>4 DEF Sessions
<1>7. Pending(r, q) = {} BY <1>3, <1>6 DEF Pending
<1>8. \A i, k : ~Later(r, q, <<>>, 0, i, k) BY <1>3, <1>6, HandOfNone DEF Later, Goes
<1>9. Spots(r, q, <<>>, 0) = {}
  <2>1. \A i, k : ~Spot(r, q, <<>>, 0, i, k) BY <1>3, <1>6, HandOfNone DEF Spot, LocalOf
  <2> QED BY <2>1 DEF Spots
<1>a. Shaped(r, q, <<>>) BY <1>1, <1>3 DEF Shaped
<1>b. Sessions(r, q, <<>>, 0) BY <1>2, <1>3, <1>6, HandOfNone DEF Sessions
<1>c. Generations(r, q) BY <1>7 DEF Generations
<1>d. Showing(r, q) BY <1>3, <1>4 DEF Showing
<1>e. Undos(r, q, <<>>, 0, s) BY <1>3, <1>6, HandOfNone DEF Undos, UndoOf
<1>f. Unsaved(r, q, s) BY <1>3 DEF Unsaved
<1>g. Gestures(r, q, <<>>, 0)
  <2>1. Made(r) = Made(p) BY <1>3 DEF Made
  <2>2. \A x : Gone(r, x) <=> Gone(p, x) BY <1>3 DEF Gone
  <2>3. Gestures(p, q, <<>>, 0) BY DEF InPage
  <2> QED BY <2>1, <2>2, <2>3, <1>3, HandOfNone DEF Gestures
<1>h. Dragged(r, q, <<>>, 0, s) BY <1>3, <1>7 DEF Dragged
<1>i. Depths(r, q, <<>>, 0, s)
  <2>1. Number(r, q, <<>>, 0) = 0 BY <1>9, FS_EmptySet DEF Number
  <2>2. ASSUME "inherited" \notin s PROVE Mine(q, r.sid) /\ MineHand(<<>>, 0, r.sid)
    BY <2>2, HandOfNone DEF Mine, MineHand, Pushes
  <2> QED BY <2>1, <2>2, <1>3 DEF Depths
<1>j. Alone(r, q, <<>>, 0, s) BY <1>8 DEF Alone
<1>k. Strokes(r, q, <<>>, 0, s, e) BY <1>3, <1>4 DEF Strokes
<1>z. InPage(r, q, <<>>, 0, s, e)
  BY <1>a, <1>b, <1>c, <1>d, <1>e, <1>f, <1>g, <1>h, <1>i, <1>j, <1>k DEF InPage
<1> QED BY <1>z DEF r

\* The session moves on under the page.
LEMMA AdvanceMoves ==
  ASSUME InPageNow, UNCHANGED <<page, queue, trouble>>, server.sid \in Nat, page.sid \in Nat,
         server'.sid \in Nat, server.sid <= server'.sid,
         page.sid = server'.sid => /\ Now(page) /\ page.rev < server'.rev /\ server.ever \subseteq server'.ever
                                   /\ page.rev \in Nat /\ server'.rev \in Nat,
         page.sid = server'.sid /\ "failed" \notin trouble => (Doomed => Doomed')
  PROVE  InPageNow'
<1>1. InPage(page, queue, <<>>, 0, trouble, Doomed) BY DEF InPageNow
<1>2. page' = page /\ queue' = queue /\ trouble' = trouble OBVIOUS
<1>3. Now(page)' => Now(page) /\ page.sid = server'.sid BY <1>2 DEF Now
<1>4. Now(page)' => page.rev < server'.rev /\ server.ever \subseteq server'.ever /\ page.rev # server'.rev BY <1>3
<1> HIDE DEF Doomed
<1>5. Shaped(page, queue, <<>>)' BY <1>1, <1>2 DEF InPage, Shaped
<1>6. Sessions(page, queue, <<>>, 0)'
  <2>1. Sessions(page, queue, <<>>, 0) BY <1>1 DEF InPage
  <2>2. page.sid <= server'.sid BY <2>1 DEF Sessions
  <2> QED BY <2>1, <2>2, <1>2 DEF Sessions, Hand
<1>7. Generations(page, queue)'
  <2>1. Generations(page, queue) BY <1>1 DEF InPage
  <2> SUFFICES ASSUME Now(page)' PROVE Generations(page, queue)' BY DEF Generations
  <2> QED BY <2>1, <1>2, <1>3, <1>4 DEF Generations, Pending
<1>8. Showing(page, queue)' BY <1>2, <1>4 DEF Showing
<1>9. Undos(page, queue, <<>>, 0, trouble)'
  <2>1. Undos(page, queue, <<>>, 0, trouble) BY <1>1 DEF InPage
  <2> SUFFICES ASSUME Now(page)' PROVE Undos(page, queue, <<>>, 0, trouble)' BY DEF Undos
  <2> QED BY <2>1, <1>2, <1>3, <1>4 DEF Undos, Pending, UndoOf, Hand, Coming, Values
<1>10. Unsaved(page, queue, trouble)'
  <2>1. Unsaved(page, queue, trouble) BY <1>1 DEF InPage
  <2> SUFFICES ASSUME Now(page)' PROVE Unsaved(page, queue, trouble)' BY DEF Unsaved
  <2> QED BY <2>1, <1>2, <1>3, <1>4 DEF Unsaved, Pending, Coming, Values
<1>11. Gestures(page, queue, <<>>, 0)' BY <1>1, <1>2 DEF InPage, Gestures, Made, Gone, Hand
<1>12. Dragged(page, queue, <<>>, 0, trouble)'
  <2>1. Dragged(page, queue, <<>>, 0, trouble) BY <1>1 DEF InPage
  <2> SUFFICES ASSUME Now(page)' PROVE Dragged(page, queue, <<>>, 0, trouble)' BY DEF Dragged
  <2> QED BY <2>1, <1>2, <1>3, <1>4 DEF Dragged, Pending, Coming, Values, EndWaits, Hand
<1>13. Depths(page, queue, <<>>, 0, trouble)'
  BY <1>1, <1>2 DEF InPage, Depths, Number, Spots, Spot, LocalOf, Hand, Mine, MineHand
<1>14. Alone(page, queue, <<>>, 0, trouble)'
  <2>1. Alone(page, queue, <<>>, 0, trouble) BY <1>1 DEF InPage
  <2> SUFFICES ASSUME Now(page)' PROVE Alone(page, queue, <<>>, 0, trouble)' BY DEF Alone
  <2> QED BY <2>1, <1>2, <1>3 DEF Alone, Later, Goes, Hand
<1>15. Strokes(page, queue, <<>>, 0, trouble, Doomed)'
  <2>1. Strokes(page, queue, <<>>, 0, trouble, Doomed) BY <1>1 DEF InPage
  <2> SUFFICES ASSUME Now(page)', "failed" \notin trouble, "overtaken" \notin trouble, ~Doomed'
               PROVE  Strokes(page, queue, <<>>, 0, trouble, Doomed)'
    BY <1>2 DEF Strokes
  <2>2. ~Doomed BY <1>3
  <2> QED BY <2>1, <2>2, <1>2, <1>3, <1>4 DEF Strokes, LaterLocal, Later, Goes, Hand, Item, Newest, LocalOf
<1> QED BY <1>5, <1>6, <1>7, <1>8, <1>9, <1>10, <1>11, <1>12, <1>13, <1>14, <1>15 DEF InPageNow, InPage

-----------------------------------------------------------------------------
(* The session's history. *)

\* Histories: the last step taken off, another put on.
LEMMA FrontIs ==
  ASSUME NEW S, NEW h \in Seq(S), h # <<>>
  PROVE  /\ Front(h) \in Seq(S) /\ Len(h) \in Nat /\ Len(h) > 0 /\ Len(Front(h)) = Len(h) - 1
         /\ \A i \in DOMAIN Front(h) : i \in DOMAIN h /\ i \in Nat /\ i < Len(h) /\ i > 0 /\ Front(h)[i] = h[i]
         /\ Last(h) \in S /\ Last(h) = h[Len(h)] /\ Len(h) \in DOMAIN h
         /\ \A i \in DOMAIN h : i \in Nat /\ i > 0 /\ i <= Len(h) /\ (i # Len(h) => i \in DOMAIN Front(h))
<1>1. Len(h) \in Nat /\ Len(h) > 0 OBVIOUS
<1>2. Front(h) = SubSeq(h, 1, Len(h) - 1) BY DEF Front
<1>3. /\ SubSeq(h, 1, Len(h) - 1) \in Seq(S) /\ Len(SubSeq(h, 1, Len(h) - 1)) = Len(h) - 1
      /\ \A i \in 1..(Len(h) - 1) : SubSeq(h, 1, Len(h) - 1)[i] = h[i]
  <2> DEFINE n == Len(h) - 1
             f == SubSeq(h, 1, n)
  <2>1. n \in Int /\ 1 \in Int /\ n >= 0 /\ n - 1 + 1 = n BY <1>1
  <2>2. \A i \in 1..n : h[i] \in S BY <1>1
  <2> HIDE DEF n
  <2>3. f \in Seq(S) /\ Len(f) = (IF 1 <= n THEN n - 1 + 1 ELSE 0) /\ \A i \in 1..(n - 1 + 1) : f[i] = h[1 + i - 1]
    BY <2>1, <2>2, SubSeqProperties
  <2> HIDE DEF f
  <2>4. Len(f) = n BY <2>1, <2>3
  <2>5. ASSUME NEW i \in 1..n PROVE f[i] = h[i]
    <3>1. 1 + i - 1 = i /\ i \in 1..(n - 1 + 1) BY <2>1
    <3>2. f[i] = h[1 + i - 1] BY <3>1, <2>3
    <3> QED BY <3>1, <3>2
  <2> QED BY <2>3, <2>4, <2>5 DEF f, n
<1>4. Last(h) = h[Len(h)] BY DEF Last
<1>5. Len(h) \in DOMAIN h BY <1>1
<1> QED BY <1>1, <1>2, <1>3, <1>4, <1>5

\* A history of which the last step is taken off is sound, and so on.
LEMMA SoundFront ==
  ASSUME NEW h \in Seq(Entry), h # <<>>, NEW ever, NEW drags, NEW ok, Sound(h, ever, drags, ok)
  PROVE  /\ Sound(Front(h), ever, drags, ok)
         /\ Front(h) # <<>> => Apart(Last(h), Last(Front(h)))
         /\ EntryOK(Last(h), ever) /\ (ok => OfDrag(Last(h), drags))
<1> DEFINE f == Front(h)
<1>1. /\ f \in Seq(Entry) /\ Len(h) \in Nat /\ Len(h) > 0 /\ Len(f) = Len(h) - 1
      /\ \A i \in DOMAIN f : i \in DOMAIN h /\ i \in Nat /\ i < Len(h) /\ i > 0 /\ f[i] = h[i]
      /\ Last(h) = h[Len(h)] /\ Len(h) \in DOMAIN h
  BY FrontIs
<1> HIDE DEF f
<1>2. Sound(f, ever, drags, ok)
  <2>1. \A i \in DOMAIN f : EntryOK(f[i], ever) /\ (ok => OfDrag(f[i], drags)) BY <1>1 DEF Sound
  <2>2. \A i \in DOMAIN f : i + 1 \in DOMAIN f => Apart(f[i + 1], f[i]) BY <1>1 DEF Sound
  <2> QED BY <2>1, <2>2 DEF Sound
<1>3. ASSUME f # <<>> PROVE Apart(Last(h), Last(f))
  <2>1. Len(f) \in DOMAIN f /\ Last(f) = f[Len(f)] BY <1>1, <1>3, FrontIs
  <2>2. Last(f) = h[Len(f)] /\ Len(f) \in DOMAIN h /\ Len(f) + 1 = Len(h) BY <2>1, <1>1
  <2> QED BY <2>2, <1>1 DEF Sound
<1>4. EntryOK(Last(h), ever) /\ (ok => OfDrag(Last(h), drags)) BY <1>1 DEF Sound
<1> QED BY <1>2, <1>3, <1>4 DEF f

LEMMA SoundAppend ==
  ASSUME NEW h \in Seq(Entry), NEW e \in Entry, NEW ever, NEW drags, NEW ok, Sound(h, ever, drags, ok),
         EntryOK(e, ever), ok => OfDrag(e, drags), h # <<>> => Apart(e, Last(h))
  PROVE  /\ Sound(Append(h, e), ever, drags, ok) /\ Append(h, e) \in Seq(Entry) /\ Append(h, e) # <<>>
         /\ Last(Append(h, e)) = e
<1> DEFINE f == Append(h, e)
           l == Len(h) + 1
<1>1. /\ f \in Seq(Entry) /\ Len(h) \in Nat /\ Len(f) = l /\ f[l] = e /\ l \in Nat
      /\ \A i \in DOMAIN h : f[i] = h[i] /\ i \in Nat /\ i > 0 /\ i < l
      /\ \A i \in DOMAIN f : i \in DOMAIN h \/ i = l
      /\ \A i \in 1..Len(h) : i \in DOMAIN h
  <2>1. DOMAIN h = 1..Len(h) /\ DOMAIN f = 1..(Len(h) + 1) OBVIOUS
  <2> QED BY <2>1
<1>2. Last(f) = e /\ f # <<>>
  <2>1. f # <<>>
    <3>1. Len(<<>>) = 0 OBVIOUS
    <3> HIDE DEF f
    <3> QED BY <3>1, <1>1
  <2>2. Last(f) = f[Len(f)] BY DEF Last
  <2> QED BY <2>1, <2>2, <1>1
<1> HIDE DEF f
<1>3. \A i \in DOMAIN f : EntryOK(f[i], ever) /\ (ok => OfDrag(f[i], drags)) BY <1>1 DEF Sound
<1>4. ASSUME NEW i \in DOMAIN f, i + 1 \in DOMAIN f PROVE Apart(f[i + 1], f[i])
  <2>1. CASE i + 1 \in DOMAIN h
    <3>1. i \in DOMAIN h BY <2>1, <1>1, <1>4
    <3> QED BY <2>1, <3>1, <1>1 DEF Sound
  <2>2. CASE i + 1 = l
    <3>1. i \in DOMAIN h /\ i = Len(h) BY <2>2, <1>1, <1>4
    <3>2. h # <<>> /\ Last(h) = h[i] BY <3>1 DEF Last
    <3> QED BY <2>2, <3>1, <3>2, <1>1
  <2> QED BY <2>1, <2>2, <1>1, <1>4
<1>5. Sound(f, ever, drags, ok) BY <1>3, <1>4 DEF Sound
<1> QED BY <1>1, <1>2, <1>5 DEF f

LEMMA SoundGrows ==
  ASSUME NEW h, NEW ever, NEW drags, NEW ok, Sound(h, ever, drags, ok), NEW more, ever \subseteq more
  PROVE  Sound(h, more, drags, ok)
<1>1. \A e : EntryOK(e, ever) => EntryOK(e, more) BY DEF EntryOK
<1> QED BY <1>1 DEF Sound

LEMMA SoundNone == ASSUME NEW ever, NEW drags, NEW ok PROVE Sound(<<>>, ever, drags, ok) /\ <<>> \in Seq(Entry)
<1>1. DOMAIN <<>> = {} OBVIOUS
<1> QED BY <1>1 DEF Sound

\* What an edit makes of the session.
EditedTo(s, type, value, drags, ok, r) ==
  /\ r \in Session /\ r.sid = s.sid /\ r.rev = s.rev + 1 /\ History(r, drags, ok) /\ s.ever \subseteq r.ever
  /\ type = "global" => r.ever = s.ever \cup value /\ r.global = value /\ r.local = s.local
  /\ type = "local" => r.ever = s.ever /\ r.global = s.global /\ r.local = value

LEMMA EditedIs ==
  ASSUME NEW s \in Session, NEW type \in {"global", "local"}, NEW value,
         value \in IF type = "global" THEN SUBSET GlobalIds ELSE SUBSET LocalIds,
         NEW group \in Nat, NEW drags, NEW ok, History(s, drags, ok),
         ok /\ type = "global" => \A x \in (value \ s.ever) \cap DOMAIN drags : drags[x] \in {NoGroup, group}
  PROVE  EditedTo(s, type, value, drags, ok, Edited(s, type, value, group))
<1> DEFINE last == Last(s.undo)
           joins == group # NoGroup /\ s.undo # <<>> /\ last.group = group /\ last.type = type
           first == IF type = "global" THEN value \ s.ever ELSE {}
           new == IF joins THEN last.new \cup first ELSE first
           before == IF joins THEN last.before ELSE Part(s, type)
           entry == [type |-> type, group |-> group, new |-> new, before |-> before, after |-> value]
           base == IF joins THEN Front(s.undo) ELSE s.undo
           undo == Append(base, entry)
           put == Put(s, type, value)
           rev == put.rev + 1
           r == Edited(s, type, value, group)
<1>1. r = [put EXCEPT !.undo = Append(IF joins THEN Front(@) ELSE @, entry), !.redo = <<>>, !.rev = @ + 1] BY DEF Edited
<1>2. /\ s.sid \in Nat /\ s.rev \in Nat /\ s.global \subseteq GlobalIds /\ s.local \subseteq LocalIds
      /\ s.ever \subseteq GlobalIds /\ s.undo \in Seq(Entry) /\ s.redo \in Seq(Entry)
  BY DEF Session
<1> DEFINE ever == IF type = "global" THEN s.ever \cup value ELSE s.ever
           global == IF type = "global" THEN value ELSE s.global
           local == IF type = "global" THEN s.local ELSE value
<1>3. ever \subseteq GlobalIds /\ s.ever \subseteq ever /\ global \subseteq GlobalIds /\ local \subseteq LocalIds
      /\ global \subseteq ever
  BY <1>2 DEF History
<1>4. put \in Session /\ put = [s EXCEPT !.global = global, !.local = local, !.ever = ever]
  <2>1. CASE type = "global"
    <3>1. put = [s EXCEPT !.global = value, !.ever = s.ever \cup value] BY <2>1 DEF Put
    <3>2. global = value /\ ever = s.ever \cup value /\ local = s.local BY <2>1
    <3>3. put = [s EXCEPT !.global = global, !.ever = ever] BY <3>1, <3>2
    <3> HIDE DEF put, global, ever, local
    <3> QED BY <3>2, <3>3, <1>2, <1>3 DEF Session
  <2>2. CASE type = "local"
    <3>1. put = [s EXCEPT !.local = value] BY <2>2 DEF Put
    <3>2. global = s.global /\ ever = s.ever /\ local = value BY <2>2
    <3>3. put = [s EXCEPT !.local = local] BY <3>1, <3>2
    <3> HIDE DEF put, global, ever, local
    <3> QED BY <3>2, <3>3, <1>2, <1>3 DEF Session
  <2> QED BY <2>1, <2>2
<1>5. r = [put EXCEPT !.undo = undo, !.redo = <<>>, !.rev = rev]
  <2>1. put.undo = s.undo
    <3> HIDE DEF put, global, local, ever
    <3> QED BY <1>4 DEF Session
  <2> QED BY <1>1, <2>1
<1>6. Sound(s.undo, ever, drags, ok)
  <2>1. Sound(s.undo, s.ever, drags, ok) BY DEF History
  <2> QED BY <2>1, <1>3, SoundGrows
<1>7. value \subseteq ever \/ type = "local" OBVIOUS
<1>8. first \subseteq ever /\ (type = "local" => first = {})
      /\ (ok => \A x \in first \cap DOMAIN drags : drags[x] \in {NoGroup, group})
  <2>1. CASE type = "global" BY <2>1
  <2>2. CASE type = "local" BY <2>2
  <2> QED BY <2>1, <2>2
<1>9. Part(s, type) \subseteq GlobalIds \cup LocalIds /\ (type = "global" => Part(s, type) \subseteq ever)
      /\ (type = "local" => Part(s, type) \subseteq LocalIds)
  BY <1>2, <1>3 DEF Part, History
<1>10. value \subseteq GlobalIds \cup LocalIds /\ (type = "local" => value \subseteq LocalIds)
  BY <1>2
<1> HIDE DEF first
<1>11. joins => /\ last \in Entry /\ EntryOK(last, ever) /\ (ok => OfDrag(last, drags))
                /\ Front(s.undo) \in Seq(Entry) /\ Sound(Front(s.undo), ever, drags, ok)
                /\ (Front(s.undo) # <<>> => Apart(last, Last(Front(s.undo))))
  BY <1>2, <1>6, FrontIs, SoundFront
<1>12. base \in Seq(Entry) /\ Sound(base, ever, drags, ok) BY <1>2, <1>6, <1>11
<1> HIDE DEF ever, global, local, put
<1>13. new \subseteq ever /\ (type = "local" => new = {})
       /\ (ok => \A x \in new \cap DOMAIN drags : drags[x] \in {NoGroup, group})
  <2>1. CASE joins
    <3>1. last.new \subseteq ever /\ (type = "local" => last.new = {}) BY <2>1, <1>11 DEF EntryOK
    <3>2. ok => \A x \in last.new \cap DOMAIN drags : drags[x] \in {NoGroup, group} BY <2>1, <1>11 DEF OfDrag
    <3>3. new = last.new \cup first BY <2>1
    <3> HIDE DEF new, joins, last
    <3> QED BY <3>1, <3>2, <3>3, <1>8
  <2>2. CASE ~joins
    <3>1. new = first BY <2>2
    <3> QED BY <3>1, <1>8
  <2> QED BY <2>1, <2>2
<1>14. before \subseteq GlobalIds \cup LocalIds /\ (type = "global" => before \subseteq ever)
       /\ (type = "local" => before \subseteq LocalIds)
  <2>1. CASE joins
    <3>1. last.before \subseteq GlobalIds \cup LocalIds BY <2>1, <1>11 DEF Entry
    <3>2. (type = "global" => last.before \subseteq ever) /\ (type = "local" => last.before \subseteq LocalIds)
      BY <2>1, <1>11 DEF EntryOK
    <3> QED BY <2>1, <3>1, <3>2
  <2>2. CASE ~joins BY <2>2, <1>9
  <2> QED BY <2>1, <2>2
<1>15. base # <<>> => Apart(entry, Last(base))
  <2>1. CASE joins
    <3>1. base = Front(s.undo) /\ last.group = group /\ last.type = type BY <2>1
    <3>2. entry.group = group /\ entry.type = type OBVIOUS
    <3> HIDE DEF entry, base, last, joins
    <3> QED BY <2>1, <3>1, <3>2, <1>11 DEF Apart
  <2>2. CASE ~joins
    <3>1. base = s.undo BY <2>2
    <3>2. entry.group = group /\ entry.type = type OBVIOUS
    <3>3. group = NoGroup \/ s.undo = <<>> \/ last.group # group \/ last.type # type BY <2>2
    <3> HIDE DEF entry, base, joins
    <3> QED BY <3>1, <3>2, <3>3 DEF Apart
  <2> QED BY <2>1, <2>2
<1> HIDE DEF new, before, base, joins, last
<1>16. entry \in Entry
  <2>1. new \in SUBSET GlobalIds BY <1>3, <1>13
  <2>2. before \in SUBSET (GlobalIds \cup LocalIds) /\ value \in SUBSET (GlobalIds \cup LocalIds) BY <1>10, <1>14
  <2> QED BY <2>1, <2>2 DEF Entry
<1>17. EntryOK(entry, ever) /\ (ok => OfDrag(entry, drags))
  <2>1. /\ entry.new = new /\ entry.before = before /\ entry.after = value /\ entry.type = type /\ entry.group = group
    OBVIOUS
  <2> HIDE DEF entry
  <2> QED BY <2>1, <1>7, <1>10, <1>13, <1>14 DEF EntryOK, OfDrag
<1> HIDE DEF entry
<1>18. Sound(undo, ever, drags, ok) /\ undo \in Seq(Entry) BY <1>12, <1>15, <1>16, <1>17, SoundAppend
<1> HIDE DEF undo, r
<1>19. put.rev = s.rev /\ put.sid = s.sid /\ put.global = global /\ put.local = local /\ put.ever = ever
  BY <1>4 DEF Session
<1>20. rev \in Nat /\ rev = s.rev + 1 BY <1>2, <1>19
<1> HIDE DEF rev
<1>21. /\ r \in Session /\ r.sid = s.sid /\ r.rev = rev /\ r.global = global /\ r.local = local /\ r.ever = ever
       /\ r.undo = undo /\ r.redo = <<>>
  <2>1. <<>> \in Seq(Entry) BY SoundNone
  <2> QED BY <2>1, <1>4, <1>5, <1>18, <1>19, <1>20 DEF Session
<1>22. History(r, drags, ok) BY <1>3, <1>18, <1>21, SoundNone DEF History
<1>23. EditedTo(s, type, value, drags, ok, r)
  <2>1. type = "global" => ever = s.ever \cup value /\ global = value /\ local = s.local BY DEF ever, global, local
  <2>2. type = "local" => ever = s.ever /\ global = s.global /\ local = value BY DEF ever, global, local
  <2> QED BY <2>1, <2>2, <1>3, <1>20, <1>21, <1>22 DEF EditedTo
<1> QED BY <1>23 DEF r

\* What undo and redo make of it.
PutTo(s, type, value, r) ==
  /\ r \in Session /\ r.sid = s.sid /\ r.rev = s.rev /\ r.undo = s.undo /\ r.redo = s.redo
  /\ type = "global" => r.ever = s.ever \cup value /\ r.global = value
  /\ type = "local" => r.ever = s.ever /\ r.global = s.global

LEMMA PutIs ==
  ASSUME NEW s \in Session, NEW type \in {"global", "local"}, NEW value,
         type = "global" => value \subseteq GlobalIds, type = "local" => value \subseteq LocalIds
  PROVE  PutTo(s, type, value, Put(s, type, value))
<1> DEFINE r == Put(s, type, value)
           ever == s.ever \cup value
<1>1. CASE type = "global"
  <2>1. r = [s EXCEPT !.global = value, !.ever = ever] BY <1>1 DEF Put
  <2>2. s.ever \subseteq GlobalIds BY DEF Session
  <2>3. ever \subseteq GlobalIds BY <2>2, <1>1
  <2> HIDE DEF r, ever
  <2>4. /\ r \in Session /\ r.sid = s.sid /\ r.rev = s.rev /\ r.undo = s.undo /\ r.redo = s.redo
        /\ r.ever = ever /\ r.global = value
    BY <2>1, <2>3, <1>1 DEF Session
  <2> QED BY <2>4, <1>1 DEF PutTo, r, ever
<1>2. CASE type = "local"
  <2>1. r = [s EXCEPT !.local = value] BY <1>2 DEF Put
  <2> HIDE DEF r
  <2>4. /\ r \in Session /\ r.sid = s.sid /\ r.rev = s.rev /\ r.undo = s.undo /\ r.redo = s.redo
        /\ r.ever = s.ever /\ r.global = s.global
    BY <2>1, <1>2 DEF Session
  <2> QED BY <2>4, <1>2 DEF PutTo, r
<1> QED BY <1>1, <1>2

SteppedTo(s, drags, ok, r) ==
  r \in Session /\ r.sid = s.sid /\ r.rev = s.rev + 1 /\ History(r, drags, ok) /\ r.ever = s.ever

LEMMA UndoneIs ==
  ASSUME NEW s \in Session, NEW drags, NEW ok, History(s, drags, ok), s.undo # <<>>
  PROVE  SteppedTo(s, drags, ok, Undone(s))
<1> DEFINE last == Last(s.undo)
           put == Put(s, last.type, last.before)
           undo == Front(s.undo)
           redo == Append(s.redo, last)
           rev == put.rev + 1
           r == Undone(s)
<1>1. r = [put EXCEPT !.redo = Append(@, last), !.undo = Front(@), !.rev = @ + 1] BY DEF Undone
<1>2. s.undo \in Seq(Entry) /\ s.redo \in Seq(Entry) /\ s.rev \in Nat /\ s.ever \subseteq GlobalIds BY DEF Session
<1>3. last \in Entry /\ EntryOK(last, s.ever) /\ (ok => OfDrag(last, drags)) /\ undo \in Seq(Entry)
      /\ Sound(undo, s.ever, drags, ok) /\ (undo # <<>> => Apart(last, Last(undo)))
  BY <1>2, FrontIs, SoundFront DEF History
<1>4. last.type \in {"global", "local"} BY <1>3 DEF Entry
<1>5. (last.type = "global" => last.before \subseteq s.ever) /\ (last.type = "local" => last.before \subseteq LocalIds)
  BY <1>3 DEF EntryOK
<1> HIDE DEF last
<1>6. PutTo(s, last.type, last.before, put) BY <1>2, <1>4, <1>5, PutIs
<1> HIDE DEF put
<1>7. put \in Session /\ put.sid = s.sid /\ put.rev = s.rev /\ put.undo = s.undo /\ put.redo = s.redo
      /\ put.ever = s.ever /\ put.global \subseteq s.ever
  <2>1. CASE last.type = "global" BY <2>1, <1>5, <1>6 DEF PutTo
  <2>2. CASE last.type = "local" BY <2>2, <1>6 DEF PutTo, History
  <2> QED BY <2>1, <2>2, <1>4
<1>8. Sound(redo, s.ever, drags, ok) /\ redo \in Seq(Entry) /\ redo # <<>> /\ Last(redo) = last
  <2>1. s.redo # <<>> => Apart(last, Last(s.redo)) BY DEF History, last
  <2> QED BY <2>1, <1>2, <1>3, SoundAppend DEF History
<1>9. r = [put EXCEPT !.redo = redo, !.undo = undo, !.rev = rev] BY <1>1, <1>7
<1>10. rev = s.rev + 1 /\ rev \in Nat BY <1>2, <1>7
<1> HIDE DEF r, redo, undo, rev
<1>11. /\ r \in Session /\ r.sid = s.sid /\ r.rev = rev /\ r.undo = undo /\ r.redo = redo /\ r.ever = s.ever
       /\ r.global = put.global
  BY <1>3, <1>7, <1>8, <1>9, <1>10 DEF Session
<1>12. undo # <<>> /\ redo # <<>> => Apart(Last(undo), Last(redo))
  BY <1>3, <1>8 DEF Apart
<1>13. History(r, drags, ok) BY <1>3, <1>7, <1>8, <1>11, <1>12 DEF History
<1>14. SteppedTo(s, drags, ok, r) BY <1>10, <1>11, <1>13 DEF SteppedTo
<1> QED BY <1>14 DEF r

LEMMA RedoneIs ==
  ASSUME NEW s \in Session, NEW drags, NEW ok, History(s, drags, ok), s.redo # <<>>
  PROVE  SteppedTo(s, drags, ok, Redone(s))
<1> DEFINE last == Last(s.redo)
           put == Put(s, last.type, last.after)
           redo == Front(s.redo)
           undo == Append(s.undo, last)
           rev == put.rev + 1
           r == Redone(s)
<1>1. r = [put EXCEPT !.undo = Append(@, last), !.redo = Front(@), !.rev = @ + 1] BY DEF Redone
<1>2. s.undo \in Seq(Entry) /\ s.redo \in Seq(Entry) /\ s.rev \in Nat /\ s.ever \subseteq GlobalIds BY DEF Session
<1>3. last \in Entry /\ EntryOK(last, s.ever) /\ (ok => OfDrag(last, drags)) /\ redo \in Seq(Entry)
      /\ Sound(redo, s.ever, drags, ok) /\ (redo # <<>> => Apart(last, Last(redo)))
  BY <1>2, FrontIs, SoundFront DEF History
<1>4. last.type \in {"global", "local"} BY <1>3 DEF Entry
<1>5. (last.type = "global" => last.after \subseteq s.ever) /\ (last.type = "local" => last.after \subseteq LocalIds)
  BY <1>3 DEF EntryOK
<1> HIDE DEF last
<1>6. PutTo(s, last.type, last.after, put) BY <1>2, <1>4, <1>5, PutIs
<1> HIDE DEF put
<1>7. put \in Session /\ put.sid = s.sid /\ put.rev = s.rev /\ put.undo = s.undo /\ put.redo = s.redo
      /\ put.ever = s.ever /\ put.global \subseteq s.ever
  <2>1. CASE last.type = "global" BY <2>1, <1>5, <1>6 DEF PutTo
  <2>2. CASE last.type = "local" BY <2>2, <1>6 DEF PutTo, History
  <2> QED BY <2>1, <2>2, <1>4
<1>8. Sound(undo, s.ever, drags, ok) /\ undo \in Seq(Entry) /\ undo # <<>> /\ Last(undo) = last
  <2>1. s.undo # <<>> => Apart(last, Last(s.undo)) BY DEF History, last, Apart
  <2> QED BY <2>1, <1>2, <1>3, SoundAppend DEF History
<1>9. r = [put EXCEPT !.undo = undo, !.redo = redo, !.rev = rev] BY <1>1, <1>7
<1>10. rev = s.rev + 1 /\ rev \in Nat BY <1>2, <1>7
<1> HIDE DEF r, redo, undo, rev
<1>11. /\ r \in Session /\ r.sid = s.sid /\ r.rev = rev /\ r.undo = undo /\ r.redo = redo /\ r.ever = s.ever
       /\ r.global = put.global
  BY <1>3, <1>7, <1>8, <1>9, <1>10 DEF Session
<1>12. undo # <<>> /\ redo # <<>> => Apart(Last(undo), Last(redo))
  BY <1>3, <1>8
<1>13. History(r, drags, ok) BY <1>3, <1>7, <1>8, <1>11, <1>12 DEF History
<1>14. SteppedTo(s, drags, ok, r) BY <1>10, <1>11, <1>13 DEF SteppedTo
<1> QED BY <1>14 DEF r

\* What a command of the queue makes of the session.
AppliedTo(s, c, drags, ok, r) ==
  /\ r \in Session /\ r.sid = s.sid /\ r.rev = s.rev + 1 /\ History(r, drags, ok) /\ s.ever \subseteq r.ever
  /\ r.ever = s.ever \cup (IF c.type = "global" THEN c.value ELSE {})
  /\ c.type = "local" => r.local = c.value

LEMMA AppliedIs ==
  ASSUME NEW s \in Session, NEW c \in Commands, NEW drags, NEW ok, History(s, drags, ok), ~Refused(s, c),
         ok /\ c.type = "global" => \A x \in (c.value \ s.ever) \cap DOMAIN drags : drags[x] \in {NoGroup, c.group}
  PROVE  AppliedTo(s, c, drags, ok, Applied(s, c))
<1>1. c \in Saves \/ c \in Waiting BY DEF Commands
<1>2. c.group \in Nat /\ (c.type = "global" => c.value \in SUBSET GlobalIds) /\ (c.type = "local" => c.value \in SUBSET LocalIds)
  BY <1>1 DEF Saves, Waiting
<1>3. c.type \in {"global", "local", "undo", "redo"} BY <1>1 DEF Saves, Waiting
<1>4. CASE c.type = "undo"
  <2>1. Applied(s, c) = Undone(s) BY <1>4 DEF Applied
  <2>2. s.undo # <<>> BY <1>4 DEF Refused
  <2>3. SteppedTo(s, drags, ok, Undone(s)) BY <2>2, UndoneIs
  <2> QED BY <2>1, <2>3, <1>4 DEF SteppedTo, AppliedTo
<1>5. CASE c.type = "redo"
  <2>1. Applied(s, c) = Redone(s) BY <1>5 DEF Applied
  <2>2. s.redo # <<>> BY <1>5 DEF Refused
  <2>3. SteppedTo(s, drags, ok, Redone(s)) BY <2>2, RedoneIs
  <2> QED BY <2>1, <2>3, <1>5 DEF SteppedTo, AppliedTo
<1>6. CASE c.type \in {"global", "local"}
  <2>1. Applied(s, c) = Edited(s, c.type, c.value, c.group) BY <1>6 DEF Applied
  <2>2. EditedTo(s, c.type, c.value, drags, ok, Edited(s, c.type, c.value, c.group)) BY <1>2, <1>6, EditedIs
  <2> QED BY <2>1, <2>2, <1>6 DEF EditedTo, AppliedTo
<1> QED BY <1>3, <1>4, <1>5, <1>6

\* Gestures of later edits do not touch the history.
LEMMA HistoryGrows ==
  ASSUME NEW s, NEW drags, NEW more, NEW ok, NEW less, History(s, drags, ok), less => ok,
         \A x \in s.ever : x \in DOMAIN more => x \in DOMAIN drags /\ more[x] = drags[x]
  PROVE  History(s, more, less)
<1>1. ASSUME NEW e, EntryOK(e, s.ever), OfDrag(e, drags) PROVE OfDrag(e, more) BY <1>1 DEF EntryOK, OfDrag
<1>2. ASSUME NEW h, Sound(h, s.ever, drags, ok) PROVE Sound(h, s.ever, more, less)
  BY <1>1, <1>2 DEF Sound
<1> QED BY <1>2 DEF History

-----------------------------------------------------------------------------
(* Every action keeps the invariant. *)

\* The assumption on the constants, conjunct by conjunct.
LEMMA Bounds == Slides \in Nat /\ Locals \in Nat /\ Histories \in Nat /\ Others \in Nat /\ Drags \in Nat
BY EditBounds

\* The head of a queue that holds the same and more.
LEMMA HeadAhead ==
  ASSUME NEW q \in Seq(Commands), NEW u \in Seq(Commands), q # <<>>, Ahead(q, u)
  PROVE  u # <<>> /\ Alike(Head(u), Head(q))
<1>1. 1 \in DOMAIN q /\ Head(q) = q[1] OBVIOUS
<1>2. 1 \in DOMAIN u /\ Alike(u[1], q[1]) BY <1>1 DEF Ahead
<1>3. u # <<>> /\ Head(u) = u[1]
  <2>1. u # <<>> BY <1>2
  <2> QED BY <2>1
<1> QED BY <1>1, <1>2, <1>3

\* A step of the page alone: the session and the requests stay.
Calm ==
  /\ UNCHANGED <<server, call, match>>
  /\ page'.sid = page.sid /\ page'.rev = page.rev
  /\ left' \in Left /\ left'.other = left.other
  /\ Ahead(queue, queue')
  /\ trouble \subseteq trouble' /\ trouble' \subseteq Troubles

\* No slider edit, or one more.
SameDrags == page'.drags = page.drags /\ left'.slide = left.slide
OneMore ==
  /\ page'.drags = Append(page.drags, IF page.held THEN page.seq ELSE NoGroup)
  /\ left.slide > 0 /\ left'.slide = left.slide - 1

LEMMA MadeGrows ==
  ASSUME EditInv, SameDrags \/ OneMore
  PROVE  /\ Made(page) \subseteq Made(page') /\ Len(page'.drags) = Slides - left'.slide
         /\ \A x \in server.ever : x \in DOMAIN page'.drags => x \in DOMAIN page.drags /\ page'.drags[x] = page.drags[x]
<1>1. page.drags \in Seq(Nat) /\ page.seq \in Nat BY DEF EditInv, InPage, Shaped, Page
<1>2. Len(page.drags) = Slides - left.slide /\ server.ever \subseteq Made(page) BY DEF EditInv, Counted
<1>3. left.slide \in 0..Slides BY DEF EditInv, Shapes, Left
<1>4. CASE SameDrags BY <1>2, <1>4 DEF SameDrags, Made
<1>5. CASE OneMore
  <2> DEFINE g == IF page.held THEN page.seq ELSE NoGroup
             n == Len(page.drags)
             v == Append(page.drags, g)
  <2>1. g \in Nat /\ n \in Nat BY <1>1 DEF NoGroup
  <2> HIDE DEF g
  <2>2. v \in Seq(Nat) /\ Len(v) = n + 1 /\ DOMAIN v = 1..(n + 1) /\ DOMAIN page.drags = 1..n
        /\ \A x \in 1..n : v[x] = page.drags[x]
    BY <1>1, <2>1
  <2>3. page'.drags = v BY <1>5 DEF OneMore, g
  <2>4. Made(page) = (1..n) \cup ((Slides + 1)..(Slides + Others))
        /\ Made(page') = (1..Len(v)) \cup ((Slides + 1)..(Slides + Others)) BY <2>3 DEF Made
  <2> HIDE DEF v, n
  <2>5. Made(page) \subseteq Made(page') BY <2>1, <2>2, <2>4
  <2>6. n + 1 = Slides - left'.slide BY <1>2, <1>3, <1>5, Bounds DEF OneMore, n
  <2>7. n + 1 \notin Made(page)
    <3>1. n + 1 <= Slides BY <1>2, <1>3, <1>5, Bounds DEF OneMore, n
    <3> QED BY <3>1, <2>1, <2>4, Bounds
  <2>8. ASSUME NEW x \in server.ever, x \in DOMAIN v PROVE x \in DOMAIN page.drags /\ v[x] = page.drags[x]
    <3>1. x # n + 1 BY <1>2, <2>7
    <3>2. x \in 1..n BY <2>1, <2>2, <2>8, <3>1
    <3> QED BY <3>2, <2>2
  <2> QED BY <2>2, <2>3, <2>5, <2>6, <2>8
<1> QED BY <1>4, <1>5

LEMMA CalmKeeps ==
  ASSUME EditInv, Calm, SameDrags \/ OneMore, InPageNow'
  PROVE  EditInv'
<1>0. /\ Made(page) \subseteq Made(page') /\ Len(page'.drags) = Slides - left'.slide
      /\ \A x \in server.ever : x \in DOMAIN page'.drags => x \in DOMAIN page.drags /\ page'.drags[x] = page.drags[x]
  BY MadeGrows
<1>1. server' = server /\ call' = call /\ match' = match BY DEF Calm
<1>2. queue \in Seq(Commands) /\ queue' \in Seq(Commands) BY DEF EditInv, InPageNow, InPage, Shaped
<1>3. page'.sid = page.sid /\ page'.rev = page.rev /\ Ahead(queue, queue') /\ trouble \subseteq trouble'
      /\ left'.other = left.other
  BY DEF Calm
<1>4. Now(page)' <=> Now(page) BY <1>1, <1>3 DEF Now
<1>5. queue # <<>> => queue' # <<>> /\ Alike(Head(queue'), Head(queue)) BY <1>2, <1>3, HeadAhead
<1>6. Shapes' BY <1>1 DEF EditInv, Shapes, Calm
<1>7. Requests'
  <2>1. Requests BY DEF EditInv
  <2>2. (call = Idle \/ (call.phase # "idle" /\ queue # <<>> /\ call.sid = Head(queue).sid))'
    BY <2>1, <1>1, <1>5 DEF Requests, Alike, Idle
  <2>3. (match = Idle \/ (match.phase # "idle" /\ match.sid <= page.sid /\ left.other < Others))'
    BY <2>1, <1>1, <1>3 DEF Requests, Idle
  <2>4. Told(call)' /\ Told(match)' BY <2>1, <1>1 DEF Requests, Told, Known
  <2>5. ((Known(call) => call.doc.global \subseteq Made(page)) /\ (Known(match) => match.doc.global \subseteq Made(page)))'
    <3>1. Made(page)' = Made(page') BY DEF Made
    <3> QED BY <3>1, <2>1, <1>0, <1>1 DEF Requests, Known
  <2>6. (Served(call) /\ call.sid = server.sid =>
           /\ Head(queue).type = "global" => Head(queue).value \subseteq server.ever
           /\ Head(queue).type = "local" => call.doc.local = Head(queue).value)'
    <3>1. Served(call) => queue # <<>> BY <2>1 DEF Served, Requests, Idle
    <3>2. Served(call)' <=> Served(call) BY <1>1 DEF Served
    <3> QED BY <2>1, <3>1, <3>2, <1>1, <1>5 DEF Requests, Alike
  <2> QED BY <2>1, <2>2, <2>3, <2>4, <2>5, <2>6, <1>1 DEF Requests
<1>8. Fresh' BY <1>1, <1>4 DEF EditInv, Fresh
<1>9. Revisions' BY <1>1, <1>3, <1>4 DEF EditInv, Revisions
<1>10. History(server, page.drags, "failed" \notin trouble)'
  <2> DEFINE ok == "failed" \notin trouble
             less == "failed" \notin trouble'
  <2>1. History(server, page.drags, ok) BY DEF EditInv
  <2>2. less => ok BY <1>3
  <2> HIDE DEF ok, less
  <2>3. History(server, page'.drags, less) BY <2>1, <2>2, <1>0, HistoryGrows
  <2> QED BY <2>3, <1>1 DEF History, Sound, EntryOK, OfDrag, Apart, less
<1>11. Counted'
  <2>1. Made(page)' = Made(page') BY DEF Made
  <2>2. Counted BY DEF EditInv
  <2> QED BY <2>1, <2>2, <1>0, <1>1 DEF Counted
<1>12. Racing'
  <2>1. Racing BY DEF EditInv
  <2>2. Served(call)' <=> Served(call) BY <1>1 DEF Served
  <2>3. Served(match)' <=> Served(match) BY <1>1 DEF Served
  <2> QED BY <2>1, <2>2, <2>3, <1>1, <1>3, <1>4 DEF Racing
<1> QED BY <1>6, <1>7, <1>8, <1>9, <1>10, <1>11, <1>12 DEF EditInv, InPageNow

\* One edit, press or fault less to come.
LEMMA SpendIs ==
  ASSUME left \in Left, NEW k \in {"slide", "local", "history", "other", "drag"}, Spend(k)
  PROVE  /\ left' \in Left /\ left[k] > 0 /\ left'[k] = left[k] - 1
         /\ \A j \in {"slide", "local", "history", "other", "drag"} : j # k => left'[j] = left[j]
<1>1. left' = [left EXCEPT ![k] = left[k] - 1] /\ left[k] > 0 BY DEF Spend
<1>2. left = [slide |-> left.slide, local |-> left.local, history |-> left.history, other |-> left.other,
              drag |-> left.drag]
  BY DEF Left
<1>3. left.slide \in 0..Slides /\ left.local \in 0..Locals /\ left.history \in 0..Histories
      /\ left.other \in 0..Others /\ left.drag \in 0..Drags
  BY DEF Left
<1> DEFINE a == left.slide
           b == left.local
           c == left.history
           e == left.other
           f == left.drag
           m == left[k] - 1
<1>4. left = [slide |-> a, local |-> b, history |-> c, other |-> e, drag |-> f] BY <1>2
<1>5. left' = [left EXCEPT ![k] = m] BY <1>1
<1>6. /\ k = "slide" => m \in 0..Slides
      /\ k = "local" => m \in 0..Locals
      /\ k = "history" => m \in 0..Histories
      /\ k = "other" => m \in 0..Others
      /\ k = "drag" => m \in 0..Drags
  BY <1>1, <1>3, Bounds
<1>7. a \in 0..Slides /\ b \in 0..Locals /\ c \in 0..Histories /\ e \in 0..Others /\ f \in 0..Drags BY <1>3
<1> HIDE DEF a, b, c, e, f, m
<1>8. left' \in Left
  <2>1. CASE k = "slide"
    <3>1. left' = [slide |-> m, local |-> b, history |-> c, other |-> e, drag |-> f] BY <2>1, <1>4, <1>5
    <3> QED BY <3>1, <2>1, <1>6, <1>7 DEF Left
  <2>2. CASE k = "local"
    <3>1. left' = [slide |-> a, local |-> m, history |-> c, other |-> e, drag |-> f] BY <2>2, <1>4, <1>5
    <3> QED BY <3>1, <2>2, <1>6, <1>7 DEF Left
  <2>3. CASE k = "history"
    <3>1. left' = [slide |-> a, local |-> b, history |-> m, other |-> e, drag |-> f] BY <2>3, <1>4, <1>5
    <3> QED BY <3>1, <2>3, <1>6, <1>7 DEF Left
  <2>4. CASE k = "other"
    <3>1. left' = [slide |-> a, local |-> b, history |-> c, other |-> m, drag |-> f] BY <2>4, <1>4, <1>5
    <3> QED BY <3>1, <2>4, <1>6, <1>7 DEF Left
  <2>5. CASE k = "drag"
    <3>1. left' = [slide |-> a, local |-> b, history |-> c, other |-> e, drag |-> m] BY <2>5, <1>4, <1>5
    <3> QED BY <3>1, <2>5, <1>6, <1>7 DEF Left
  <2> QED BY <2>1, <2>2, <2>3, <2>4, <2>5
<1>9. \A j \in {"slide", "local", "history", "other", "drag"} : left'[j] = IF j = k THEN m ELSE left[j]
  BY <1>4, <1>5
<1> QED BY <1>1, <1>8, <1>9 DEF m

\* What the invariant says of the page and of the requests.
LEMMA InvIs ==
  ASSUME EditInv
  PROVE  /\ InPage(page, queue, <<>>, 0, trouble, Doomed)
         /\ page \in Page /\ queue \in Seq(Commands) /\ left \in Left /\ trouble \subseteq Troubles
         /\ server \in Session /\ call \in Call /\ match \in Call
         /\ page.sid \in Nat /\ server.sid \in Nat /\ page.rev \in Nat /\ server.rev \in Nat
         /\ page.sid <= server.sid
<1>1. InPage(page, queue, <<>>, 0, trouble, Doomed) /\ Shapes BY DEF EditInv
<1>2. page \in Page /\ queue \in Seq(Commands) BY <1>1 DEF InPage, Shaped
<1>3. page.sid <= server.sid BY <1>1 DEF InPage, Sessions
<1>4. server \in Session BY <1>1 DEF Shapes
<1> QED BY <1>1, <1>2, <1>3, <1>4 DEF Shapes, Page, Session

\* The head fares the same.
LEMMA DoomedStays ==
  ASSUME server' = server, call' = call, page'.sid = page.sid
  PROVE  Doomed' <=> Doomed
BY DEF Doomed

\* The steps of the page.
LEMMA PressKeeps == ASSUME EditInv, Press PROVE EditInv'
<1>1. /\ InPage(page, queue, <<>>, 0, trouble, Doomed) /\ page \in Page /\ left \in Left /\ trouble \subseteq Troubles
      /\ queue \in Seq(Commands)
  BY InvIs
<1> DEFINE x == [page EXCEPT !.held = TRUE, !.seq = page.seq + 1, !.group = page.seq + 1]
<1>2. /\ page' = x /\ ~page.held /\ Spend("drag") /\ UNCHANGED <<server, queue, call, match, trouble>>
  BY DEF Press
<1>3. InPage(x, queue, <<>>, 0, trouble, Doomed) BY <1>1, <1>2, MovePress
<1>4. x.sid = page.sid /\ x.rev = page.rev /\ x.drags = page.drags BY <1>1 DEF Page
<1> HIDE DEF x
<1>5. Doomed' <=> Doomed BY <1>2, <1>4, DoomedStays
<1>6. InPageNow'
  <2> HIDE DEF Doomed
  <2> QED BY <1>2, <1>3, <1>5, Became
<1>7. left' \in Left /\ left'.other = left.other /\ left'.slide = left.slide BY <1>1, <1>2, SpendIs
<1>8. Ahead(queue, queue') BY <1>2, AheadSelf
<1>9. Calm BY <1>1, <1>2, <1>4, <1>7, <1>8 DEF Calm
<1>10. SameDrags BY <1>2, <1>4, <1>7 DEF SameDrags
<1> QED BY <1>6, <1>9, <1>10, CalmKeeps

LEMMA SlideKeeps == ASSUME EditInv, Slide PROVE EditInv'
<1>1. /\ InPage(page, queue, <<>>, 0, trouble, Doomed) /\ page \in Page /\ left \in Left /\ trouble \subseteq Troubles
      /\ queue \in Seq(Commands)
  BY InvIs
<1> DEFINE e == Slides + 1 - left.slide
           x == [page EXCEPT !.adj = @ \cup {e}, !.dirty = TRUE, !.gen = @ + 1,
                             !.drags = Append(@, IF page.held THEN page.seq ELSE NoGroup)]
<1>2. /\ page' = x /\ Spend("slide") /\ UNCHANGED <<server, queue, call, match, trouble>>
  BY DEF Slide
<1>7. left' \in Left /\ left'.other = left.other /\ left.slide > 0 /\ left'.slide = left.slide - 1 BY <1>1, <1>2, SpendIs
<1>30. e \in GlobalIds /\ e = Len(page.drags) + 1 /\ e <= Slides
  <2> DEFINE n == Len(page.drags)
             a == left.slide
  <2>1. n = Slides - a BY DEF EditInv, Counted
  <2>2. a \in 0..Slides BY <1>1 DEF Left
  <2>3. a > 0 BY <1>7
  <2>4. e = Slides + 1 - a OBVIOUS
  <2> HIDE DEF n, a, e
  <2>5. Slides \in Nat /\ Others \in Nat /\ a \in Nat /\ a <= Slides BY <2>2, Bounds
  <2>6. e \in Nat /\ e > 0 /\ e <= Slides /\ e = n + 1 BY <2>1, <2>3, <2>4, <2>5
  <2>7. e \in GlobalIds BY <2>5, <2>6 DEF GlobalIds
  <2> QED BY <2>6, <2>7 DEF n
<1> HIDE DEF e
<1>3. InPage(x, queue, <<>>, 0, trouble, Doomed)
  <2> HIDE DEF Doomed
  <2> QED BY <1>1, <1>30, Bounds, MoveSlide
<1>4. x.sid = page.sid /\ x.rev = page.rev /\ x.drags = Append(page.drags, IF page.held THEN page.seq ELSE NoGroup)
  BY <1>1 DEF Page
<1> HIDE DEF x
<1>5. Doomed' <=> Doomed BY <1>2, <1>4, DoomedStays
<1>6. InPageNow'
  <2> HIDE DEF Doomed
  <2> QED BY <1>2, <1>3, <1>5, Became
<1>8. Ahead(queue, queue') BY <1>2, AheadSelf
<1>9. Calm BY <1>1, <1>2, <1>4, <1>7, <1>8 DEF Calm
<1>10. OneMore BY <1>2, <1>4, <1>7 DEF OneMore
<1> QED BY <1>6, <1>9, <1>10, CalmKeeps

\* Whatever the page saves or queues, its photo, its revision and its gestures stay.
LEMMA BecomeKeeps ==
  ASSUME EditInv, NEW p, NEW state, NEW s, SamePage(p, state.page), p.sid = page.sid, p.rev = page.rev,
         p.drags = page.drags, Ahead(queue, state.queue), InPage(state.page, state.queue, <<>>, 0, s, Doomed),
         Become(state), trouble' = s, trouble \subseteq s, s \subseteq Troubles,
         left' \in Left, left'.other = left.other, left'.slide = left.slide, UNCHANGED <<server, call, match>>
  PROVE  EditInv'
<1> DEFINE x == state.page
           y == state.queue
<1>1. page' = x /\ queue' = y BY DEF Become
<1>2. x.sid = page.sid /\ x.rev = page.rev /\ x.drags = page.drags BY DEF SamePage
<1> HIDE DEF x, y
<1>3. Doomed' <=> Doomed BY <1>1, <1>2, DoomedStays
<1>4. InPage(x, y, <<>>, 0, s, Doomed) /\ Ahead(queue, y) BY DEF x, y
<1>5. InPageNow'
  <2> HIDE DEF Doomed
  <2> QED BY <1>1, <1>3, <1>4, Became
<1>6. Calm BY <1>1, <1>2, <1>4 DEF Calm
<1>7. SameDrags BY <1>1, <1>2 DEF SameDrags
<1> QED BY <1>5, <1>6, <1>7, CalmKeeps

LEMMA ReleaseKeeps == ASSUME EditInv, Release PROVE EditInv'
<1> DEFINE p == [page EXCEPT !.held = FALSE]
           w == <<[type |-> "end", group |-> page.group]>>
           state == Sync(p, queue, w)
<1>1. /\ InPage(page, queue, <<>>, 0, trouble, Doomed) /\ page \in Page /\ left \in Left /\ trouble \subseteq Troubles
  BY InvIs
<1>2. page.held /\ Become(state) /\ UNCHANGED <<server, call, match, left, trouble>> BY DEF Release
<1>3. InPage(p, queue, w, 0, trouble, Doomed) BY <1>1, <1>2, HandEnd
<1>4. p.sid = page.sid /\ p.rev = page.rev /\ p.drags = page.drags BY <1>1 DEF Page
<1>5. \A k \in DOMAIN w : w[k].type = "end"
  <2> SUFFICES ASSUME NEW k \in DOMAIN w PROVE w[k].type = "end" OBVIOUS
  <2>1. k = 1 OBVIOUS
  <2> QED BY <2>1
<1> HIDE DEF p, w
<1>6. SyncTo(p, queue, w, trouble, Doomed, state)
  <2> HIDE DEF Doomed
  <2> QED BY <1>3, <1>5, MoveSync
<1> HIDE DEF state
<1> HIDE DEF Doomed
<1>7. SamePage(p, state.page) /\ Ahead(queue, state.queue) /\ InPage(state.page, state.queue, <<>>, 0, trouble, Doomed)
  BY <1>6 DEF SyncTo
<1> QED BY <1>1, <1>2, <1>4, <1>7, BecomeKeeps

LEMMA SettleSaveKeeps == ASSUME EditInv, SettleSave PROVE EditInv'
<1> DEFINE state == Sync(page, queue, <<>>)
<1>1. /\ InPage(page, queue, <<>>, 0, trouble, Doomed) /\ page \in Page /\ left \in Left /\ trouble \subseteq Troubles
  BY InvIs
<1>2. Become(state) /\ UNCHANGED <<server, call, match, left, trouble>> BY DEF SettleSave
<1>5. \A k \in DOMAIN <<>> : <<>>[k].type # "end" => <<>>[k].sid = page.sid OBVIOUS
<1>6. SyncTo(page, queue, <<>>, trouble, Doomed, state)
  <2> HIDE DEF Doomed
  <2> QED BY <1>1, <1>5, MoveSync
<1> HIDE DEF state
<1> HIDE DEF Doomed
<1>7. SamePage(page, state.page) /\ Ahead(queue, state.queue) /\ InPage(state.page, state.queue, <<>>, 0, trouble, Doomed)
  BY <1>6 DEF SyncTo
<1> QED BY <1>1, <1>2, <1>7, BecomeKeeps

\* A command that is pressed may overtake others.
Overtakes == IF \E i \in DOMAIN queue : \E k \in DOMAIN queue[i].after : queue[i].after[k].type # "end"
             THEN {"overtaken"} ELSE {}

LEMMA PushedKeeps ==
  ASSUME EditInv, NEW p \in Page, NEW c \in Waiting, p.sid = page.sid, p.rev = page.rev, p.adj = page.adj,
         p.dirty = page.dirty, p.gen = page.gen, p.held = page.held, p.group = page.group, p.seq = page.seq,
         p.drags = page.drags, c.sid = page.sid, c.seen = page.adj,
         c.type = "local" => p.depth = page.depth + 1 /\ c.value = p.locals,
         c.type # "local" => p.depth = page.depth /\ p.locals = page.locals,
         Pushed(p, c), left' \in Left, left'.other = left.other, left'.slide = left.slide,
         UNCHANGED <<server, call, match>>
  PROVE  EditInv'
<1> DEFINE state == QueueEdit(p, queue, c)
           s == trouble \cup Overtakes
<1>1. /\ InPage(page, queue, <<>>, 0, trouble, Doomed) /\ left \in Left /\ trouble \subseteq Troubles
  BY InvIs
<1>2. Become(state) /\ trouble' = s BY DEF Pushed, Overtakes
<1>3. trouble \subseteq s /\ s \subseteq Troubles BY <1>1 DEF Overtakes, Troubles
<1>4. "overtaken" \notin s => \A i \in DOMAIN queue : \A k \in DOMAIN queue[i].after : queue[i].after[k].type = "end"
  BY DEF Overtakes
<1> HIDE DEF s, Doomed
<1>5. InPage(p, queue, <<c>>, 0, s, Doomed) BY <1>1, <1>3, <1>4, HandCommand
<1>6. QueueTo(p, queue, s, Doomed, state) BY <1>5, MoveQueueEdit
<1> HIDE DEF state
<1>7. SamePage(p, state.page) /\ Ahead(queue, state.queue) /\ InPage(state.page, state.queue, <<>>, 0, s, Doomed)
  BY <1>6 DEF QueueTo
<1> QED BY <1>2, <1>3, <1>7, BecomeKeeps

LEMMA CommitLocalKeeps == ASSUME EditInv, CommitLocal PROVE EditInv'
<1> DEFINE locals == page.locals \cup {Locals + 1 - left.local}
           depth == page.depth + 1
           p == [page EXCEPT !.locals = locals, !.depth = depth]
           c == Command(p, "local", locals)
<1>1. page \in Page /\ left \in Left BY InvIs
<1>2. Spend("local") /\ Pushed(p, c) /\ UNCHANGED <<server, call, match>> BY DEF CommitLocal
<1>3. left' \in Left /\ left'.other = left.other /\ left'.slide = left.slide /\ left.local > 0 BY <1>1, <1>2, SpendIs
<1>4. locals \in SUBSET LocalIds
  <2>1. left.local \in 0..Locals BY <1>1 DEF Left
  <2>2. Locals + 1 - left.local \in LocalIds BY <2>1, <1>3, Bounds DEF LocalIds
  <2>3. page.locals \subseteq LocalIds BY <1>1 DEF Page
  <2> QED BY <2>2, <2>3
<1>5. depth \in Nat /\ depth = page.depth + 1 BY <1>1 DEF Page
<1> HIDE DEF locals, depth
<1>6. /\ p \in Page /\ p.sid = page.sid /\ p.rev = page.rev /\ p.adj = page.adj
      /\ p.dirty = page.dirty /\ p.gen = page.gen /\ p.held = page.held /\ p.group = page.group /\ p.seq = page.seq
      /\ p.drags = page.drags /\ p.locals = locals /\ p.depth = depth
  BY <1>1, <1>4, <1>5 DEF Page
<1> HIDE DEF p
<1>7. /\ c \in Waiting /\ c.type = "local" /\ c.sid = p.sid /\ c.value = locals /\ c.seen = p.adj
  BY <1>4, <1>6, CommandMade
<1> HIDE DEF c
<1>8. /\ c.sid = page.sid /\ c.seen = page.adj
      /\ c.type = "local" => p.depth = page.depth + 1 /\ c.value = p.locals
      /\ c.type # "local" => p.depth = page.depth /\ p.locals = page.locals
  BY <1>5, <1>6, <1>7
<1> QED BY <1>2, <1>3, <1>6, <1>7, <1>8, PushedKeeps

LEMMA PressHistoryKeeps == ASSUME EditInv, PressHistory PROVE EditInv'
<1>1. page \in Page /\ left \in Left BY InvIs
<1>2. PICK type \in {"undo", "redo"} : Pushed(page, Command(page, type, {})) BY DEF PressHistory
<1>3. Spend("history") /\ UNCHANGED <<server, call, match>> BY DEF PressHistory
<1> DEFINE c == Command(page, type, {})
<1>4. left' \in Left /\ left'.other = left.other /\ left'.slide = left.slide BY <1>1, <1>3, SpendIs
<1>5. /\ c \in Waiting /\ c.type = type /\ c.sid = page.sid /\ c.seen = page.adj
  BY <1>1, CommandMade
<1>6. c.type # "local" BY <1>5
<1>7. Pushed(page, c) BY <1>2
<1> HIDE DEF c
<1> QED BY <1>1, <1>3, <1>4, <1>5, <1>6, <1>7, PushedKeeps

\* What the requests do not touch: the session and the history of the gestures.
LEMMA StillKeeps ==
  ASSUME EditInv, server' = server, page'.sid = page.sid, page'.drags = page.drags, left'.slide = left.slide,
         trouble \subseteq trouble', Now(page) => page'.rev <= server.rev
  PROVE  /\ Fresh' /\ Revisions' /\ Counted' /\ History(server, page.drags, "failed" \notin trouble)'
         /\ Made(page)' = Made(page)
<1>1. Now(page)' <=> Now(page) BY DEF Now
<1>2. Fresh' BY <1>1 DEF EditInv, Fresh
<1>3. Revisions' BY <1>1 DEF Revisions
<1>4. Made(page)' = Made(page) BY DEF Made
<1>5. Counted' BY <1>4 DEF EditInv, Counted
<1>6. History(server, page.drags, "failed" \notin trouble)'
  <2> DEFINE ok == "failed" \notin trouble
             less == "failed" \notin trouble'
  <2>1. History(server, page.drags, ok) BY DEF EditInv
  <2>2. less => ok OBVIOUS
  <2> HIDE DEF ok, less
  <2>3. History(server, page.drags, less) BY <2>1, <2>2, HistoryGrows
  <2> QED BY <2>3 DEF History, Sound, EntryOK, OfDrag, Apart, less
<1> QED BY <1>2, <1>3, <1>4, <1>5, <1>6

\* No request.
LEMMA IdleIs ==
  /\ Idle \in Call /\ Idle.phase = "idle" /\ Idle.sid = 0 /\ Idle.answer = "none"
  /\ ~Known(Idle) /\ ~Served(Idle) /\ Told(Idle)
<1>1. Idle.doc \in Document BY DEF Idle, Document
<1>2. Idle \in Call BY <1>1 DEF Idle, Call, Phases
<1>3. Idle.phase = "idle" /\ Idle.sid = 0 /\ Idle.answer = "none" BY DEF Idle
<1> QED BY <1>2, <1>3 DEF Known, Served, Told

\* A command that is finished, as far as what follows its answer is ready for it.
LEMMA CompleteKeeps ==
  ASSUME EditInv, queue # <<>>, NEW p, NEW applied \in BOOLEAN, NEW d, NEW t,
         t = trouble \cup IF applied THEN {} ELSE {"failed"},
         p.sid = page.sid, p.drags = page.drags, Now(page) => p.rev <= server.rev,
         InPage(p, queue, <<>>, 0, t, d), Complete(p, applied),
         applied => /\ Ready(p, Head(queue), t, d) /\ Head(queue).sid = p.sid
                    /\ Now(page) /\ "failed" \notin trouble
                       => page.rev <= p.rev /\ ~(Served(match) /\ match.sid = page.sid),
         UNCHANGED <<server, match, left>>
  PROVE  EditInv'
<1> DEFINE state == Finished(p, queue, applied)
           x == state.page
           y == state.queue
<1>1. page' = x /\ queue' = y /\ call' = Idle /\ trouble' = t BY DEF Complete, Become
<1>2. FinishTo(p, t, state) BY MoveFinished
<1> HIDE DEF state
<1>3. InPage(x, y, <<>>, 0, t, FALSE) /\ SamePage(p, x) BY <1>2 DEF FinishTo
<1> HIDE DEF x, y
<1>4. page'.sid = page.sid /\ page'.drags = page.drags /\ page'.rev = p.rev BY <1>1, <1>3 DEF SamePage
<1>5. trouble \subseteq trouble' /\ trouble' \subseteq Troubles
  <2>1. trouble \subseteq Troubles BY InvIs
  <2> QED BY <2>1, <1>1 DEF Troubles
<1>6. /\ Fresh' /\ Revisions' /\ Counted' /\ History(server, page.drags, "failed" \notin trouble)'
      /\ Made(page)' = Made(page)
  BY <1>4, <1>5, StillKeeps
<1>7. InPageNow' BY <1>1, <1>3, Became
<1>8. Shapes' BY <1>1, <1>5, IdleIs DEF EditInv, Shapes
<1>9. Requests'
  <2>1. Requests BY DEF EditInv
  <2>2. (match = Idle \/ (match.phase # "idle" /\ match.sid <= page.sid /\ left.other < Others))' BY <2>1, <1>4 DEF Requests
  <2>3. Told(call)' /\ Told(match)'
    <3>1. Told(match)' BY <2>1 DEF Requests, Told, Known
    <3>2. Told(call)' BY <1>1, IdleIs DEF Told, Known
    <3> QED BY <3>1, <3>2
  <2>4. (match.phase = "answered" => match.answer # "none")' /\ (call.phase = "answered" => call.answer # "none")'
    BY <2>1, <1>1, IdleIs DEF Requests
  <2>5. (Known(match) => match.doc.global \subseteq Made(page))' BY <2>1, <1>6 DEF Requests, Known
  <2>6. ~Known(call)' /\ ~Served(call)' BY <1>1, IdleIs DEF Known, Served
  <2> QED BY <2>2, <2>3, <2>4, <2>5, <2>6, <1>1 DEF Requests
<1>10. Racing'
  <2>1. CASE "failed" \in trouble' BY <2>1 DEF Racing
  <2>2. CASE "failed" \notin trouble'
    <3>1. applied /\ "failed" \notin trouble BY <2>2, <1>1
    <3>2. Now(page)' <=> Now(page) BY <1>4 DEF Now
    <3>3. Now(page) => page.rev <= p.rev /\ ~(Served(match) /\ match.sid = page.sid) BY <3>1
    <3>4. call'.phase = "idle" /\ ~Served(call)' BY <1>1, IdleIs DEF Served
    <3>5. Now(page) /\ match.phase = "sent" /\ match.sid = page.sid => match.rev <= p.rev
      <4>1. page.rev \in Nat /\ match.rev \in Nat BY InvIs DEF Call
      <4>2. p.rev \in Nat BY DEF InPage, Shaped, Page
      <4>3. Now(page) /\ match.phase = "sent" /\ match.sid = page.sid => match.rev <= page.rev BY <3>1 DEF EditInv, Racing
      <4> QED BY <4>1, <4>2, <4>3, <3>3
    <3>6. Now(page) /\ match.phase \in {"asked", "read"} => match.sid # page.sid BY <3>1 DEF EditInv, Racing
    <3>7. Served(match)' <=> Served(match) BY DEF Served
    <3> QED BY <3>2, <3>3, <3>4, <3>5, <3>6, <3>7, <1>4 DEF Racing
  <2> QED BY <2>1, <2>2
<1> QED BY <1>6, <1>7, <1>8, <1>9, <1>10 DEF EditInv, InPageNow

\* A command that is refused or lost, whatever the page has taken meanwhile.
LEMMA FailKeeps ==
  ASSUME EditInv, queue # <<>>, Complete(page, FALSE), UNCHANGED <<server, match, left>>
  PROVE  EditInv'
<1> DEFINE t == trouble \cup {"failed"}
<1>1. InPage(page, queue, <<>>, 0, trouble, Doomed) BY InvIs
<1>2. InPage(page, queue, <<>>, 0, t, Doomed)
  <2> HIDE DEF Doomed
  <2> QED BY <1>1, Weaker
<1>3. Now(page) => page.rev <= server.rev BY DEF EditInv, Revisions
<1>4. t = trouble \cup IF FALSE THEN {} ELSE {"failed"} OBVIOUS
<1> HIDE DEF t, Doomed
<1> QED BY <1>2, <1>3, <1>4, CompleteKeeps

\* The head is sent.
LEMMA SendKeeps == ASSUME EditInv, Send PROVE EditInv'
<1>1. /\ InPage(page, queue, <<>>, 0, trouble, Doomed) /\ page \in Page /\ trouble \subseteq Troubles
      /\ queue \in Seq(Commands) /\ page.rev \in Nat /\ page.sid \in Nat
  BY InvIs
<1>2. queue # <<>> /\ call = Idle /\ UNCHANGED <<server, match, left>> BY DEF Send, Turn
<1>3. CASE Head(queue).sid # page.sid
  <2>1. Complete(page, FALSE) BY <1>3 DEF Send
  <2> QED BY <1>2, <2>1, FailKeeps
<1>4. CASE Head(queue).sid = page.sid
  <2> DEFINE c == [Idle EXCEPT !.phase = "sent", !.sid = page.sid, !.rev = page.rev]
  <2>1. call' = c /\ UNCHANGED <<page, queue, trouble>> BY <1>4 DEF Send
  <2>2. c \in Call /\ c.phase = "sent" /\ c.sid = page.sid /\ c.rev = page.rev
    <3>1. Idle \in Call BY IdleIs
    <3>2. "sent" \in Phases BY DEF Phases
    <3> QED BY <1>1, <3>1, <3>2 DEF Call
  <2> HIDE DEF c
  <2>3. ~Known(call)' /\ ~Served(call)' BY <2>1, <2>2 DEF Known, Served
  <2>4. Now(page) => page.rev <= server.rev BY DEF EditInv, Revisions
  <2>5. /\ Fresh' /\ Revisions' /\ Counted' /\ History(server, page.drags, "failed" \notin trouble)'
        /\ Made(page)' = Made(page)
    BY <1>2, <2>1, <2>4, StillKeeps
  <2>6. ~Doomed BY <1>2, IdleIs DEF Doomed
  <2>7. InPageNow'
    <3> DEFINE d == Doomed
    <3>1. InPage(page, queue, <<>>, 0, trouble, d) /\ ~d BY <1>1, <2>6
    <3> HIDE DEF d
    <3> QED BY <3>1, <1>2, <2>1, Became
  <2>8. Shapes' BY <2>1, <2>2, <1>2 DEF EditInv, Shapes
  <2>9. Requests'
    <3>1. Requests BY DEF EditInv
    <3>2. (match = Idle \/ (match.phase # "idle" /\ match.sid <= page.sid /\ left.other < Others))' BY <3>1, <1>2, <2>1 DEF Requests
    <3>3. Told(call)' /\ Told(match)'
      <4>1. Told(match)' BY <3>1, <1>2 DEF Requests, Told, Known
      <4>2. Told(call)' BY <2>3 DEF Told, Known
      <4> QED BY <4>1, <4>2
    <3>4. (Known(match) => match.doc.global \subseteq Made(page))' BY <3>1, <2>5, <1>2 DEF Requests, Known
    <3>5. (match.phase = "answered" => match.answer # "none")' BY <3>1, <1>2 DEF Requests
    <3> QED BY <1>2, <1>4, <2>1, <2>2, <2>3, <3>2, <3>3, <3>4, <3>5 DEF Requests
  <2>10. Racing'
    <3>1. Racing BY DEF EditInv
    <3>2. Now(page)' <=> Now(page) BY <2>1, <1>2 DEF Now
    <3>3. Served(match)' <=> Served(match) BY <1>2 DEF Served
    <3>4. page.rev <= page.rev BY <1>1
    <3> QED BY <3>1, <3>2, <3>3, <3>4, <2>1, <2>2, <2>3, <1>2 DEF Racing
  <2> QED BY <2>5, <2>7, <2>8, <2>9, <2>10 DEF EditInv, InPageNow
<1> QED BY <1>3, <1>4

\* A request that goes on, the session and the page staying what they are.
LEMMA AskKeeps ==
  ASSUME EditInv, UNCHANGED <<server, page, queue, trouble>>, call' \in Call, match' \in Call, left' \in Left,
         left'.slide = left.slide, Requests', Racing', "failed" \in trouble \/ (Doomed => Doomed')
  PROVE  EditInv'
<1>1. Now(page) => page.rev <= server.rev BY DEF EditInv, Revisions
<1>2. Fresh' /\ Revisions' /\ Counted' /\ History(server, page.drags, "failed" \notin trouble)'
  BY <1>1, StillKeeps
<1>3. Shapes' BY InvIs DEF Shapes
<1>4. InPageNow'
  <2> DEFINE d == Doomed
  <2>1. InPage(page, queue, <<>>, 0, trouble, d) BY InvIs
  <2>2. "failed" \in trouble \/ (d => Doomed') OBVIOUS
  <2> HIDE DEF d, Doomed
  <2> QED BY <2>1, <2>2, Became
<1> QED BY <1>2, <1>3, <1>4 DEF EditInv, InPageNow

\* What is known of a request that has no document of the session.
LEMMA UntoldIs ==
  ASSUME NEW r, r.answer # "ok"
  PROVE  ~Known(r) /\ ~Served(r) /\ Told(r)
BY DEF Known, Served, Told

\* The request of the head goes on without an answer that holds.
LEMMA HeadAsks ==
  ASSUME EditInv, UNCHANGED <<server, page, queue, match, trouble>>, left' \in Left, left'.slide = left.slide,
         left'.other <= left.other, call # Idle, call' \in Call, call'.sid = call.sid, call'.phase # "idle",
         call'.phase # "sent", call'.phase = "answered" => call'.answer \notin {"none", "ok"},
         Told(call'), Known(call') => call'.doc.global \subseteq Made(page)
  PROVE  EditInv'
<1>1. ~Served(call') BY DEF Served
<1>2. Requests BY DEF EditInv
<1>3. Requests'
  <2>1. left'.other < Others \/ match = Idle
    <3>1. left.other \in 0..Others /\ left'.other \in 0..Others BY InvIs DEF Left
    <3> QED BY <3>1, <1>2, Bounds DEF Requests
  <2>2. (call = Idle \/ (call.phase # "idle" /\ queue # <<>> /\ call.sid = Head(queue).sid))' BY <1>2 DEF Requests
  <2>3. (match = Idle \/ (match.phase # "idle" /\ match.sid <= page.sid /\ left.other < Others))'
    BY <1>2, <2>1 DEF Requests
  <2>4. Told(call)' /\ Told(match)' BY <1>2 DEF Requests, Told, Known
  <2>5. (Known(call) => call.doc.global \subseteq Made(page))' BY DEF Known, Made
  <2>6. (Known(match) => match.doc.global \subseteq Made(page))' BY <1>2 DEF Requests, Known, Made
  <2>7. ~Served(call)' BY <1>1 DEF Served
  <2>8. (call.phase = "answered" => call.answer # "none")' /\ (match.phase = "answered" => match.answer # "none")'
    BY <1>2 DEF Requests
  <2> QED BY <2>2, <2>3, <2>4, <2>5, <2>6, <2>7, <2>8 DEF Requests
<1>4. Racing'
  <2>1. Racing BY DEF EditInv
  <2>2. ~Served(call)' BY <1>1 DEF Served
  <2>3. Served(match)' <=> Served(match) BY DEF Served
  <2>4. Now(page)' <=> Now(page) BY DEF Now
  <2> QED BY <2>1, <2>2, <2>3, <2>4 DEF Racing
<1>5. Doomed'
  <2>1. call'.phase \in {"answered", "asked", "read"} BY DEF Call, Phases
  <2>2. (call.phase = "answered" /\ call.answer # "ok")' \/ (call.phase \in {"asked", "read"})' BY <2>1
  <2> QED BY <2>2 DEF Doomed
<1> HIDE DEF Doomed
<1>6. match' \in Call BY InvIs
<1> QED BY <1>3, <1>4, <1>5, <1>6, AskKeeps

\* A request or its answer is lost.
LEMMA LoseKeeps == ASSUME EditInv, Lose PROVE EditInv'
<1>1. left \in Left /\ call \in Call BY InvIs
<1>2. Spend("other") /\ UNCHANGED <<server, page, queue, match, trouble>> BY DEF Lose
<1>3. left' \in Left /\ left'.slide = left.slide /\ left'.other = left.other - 1 BY <1>1, <1>2, SpendIs
<1>4. left'.other <= left.other
  <2>1. left.other \in 0..Others BY <1>1 DEF Left
  <2> QED BY <2>1, <1>3, Bounds
<1>5. /\ call # Idle /\ call' \in Call /\ call'.sid = call.sid /\ call'.phase \in {"answered", "read"}
      /\ call'.answer = "error"
  <2>1. CASE call.phase \in {"sent", "answered"} /\ call' = [call EXCEPT !.phase = "answered", !.answer = "error"]
    BY <2>1, <1>1, IdleIs DEF Call, Phases
  <2>2. CASE call.phase \in {"asked", "read"} /\ call' = [call EXCEPT !.phase = "read", !.answer = "error"]
    BY <2>2, <1>1, IdleIs DEF Call, Phases
  <2> QED BY <2>1, <2>2 DEF Lose
<1>6. ~Known(call') /\ Told(call') BY <1>5, UntoldIs
<1> QED BY <1>2, <1>3, <1>4, <1>5, <1>6, HeadAsks

\* What the session answers when it is asked for its document.
LEMMA ReadIs ==
  ASSUME EditInv, NEW r \in Call
  PROVE  /\ Read(r) \in Call /\ Read(r).phase = "read" /\ Read(r).sid = r.sid /\ Read(r).answer \in {"ok", "error"}
         /\ Told(Read(r)) /\ (Known(Read(r)) => Read(r).doc.global \subseteq Made(page))
<1>1. server \in Session /\ server.rev \in Nat BY InvIs
<1>2. server.global \subseteq server.ever /\ server.ever \subseteq Made(page)
  BY DEF EditInv, History, Counted
<1>3. Snapshot(server) \in Document /\ Snapshot(server).global = server.global /\ Snapshot(server).local = server.local
      /\ Snapshot(server).rev = server.rev
  BY <1>1 DEF Snapshot, Session, Document
<1> DEFINE a == Read(r)
<1>4. CASE r.sid = server.sid
  <2> DEFINE doc == Snapshot(server)
  <2>1. a = [r EXCEPT !.phase = "read", !.answer = "ok", !.doc = doc] BY <1>4 DEF Read
  <2>2. doc \in Document BY <1>3
  <2> HIDE DEF a, doc
  <2>3. a \in Call /\ a.phase = "read" /\ a.sid = r.sid /\ a.answer = "ok" /\ a.doc = doc
    BY <2>1, <2>2 DEF Call, Phases
  <2>4. Told(a) BY <2>3, <1>1, <1>2, <1>3 DEF Told, doc
  <2>5. a.doc.global \subseteq Made(page) BY <2>3, <1>2, <1>3 DEF doc
  <2>6. a \in Call /\ a.phase = "read" /\ a.sid = r.sid /\ a.answer \in {"ok", "error"} BY <2>3
  <2> QED BY <2>4, <2>5, <2>6 DEF a
<1>5. CASE r.sid # server.sid
  <2>1. a = [r EXCEPT !.phase = "read", !.answer = "error"] BY <1>5 DEF Read
  <2> HIDE DEF a
  <2>2. a \in Call /\ a.phase = "read" /\ a.sid = r.sid /\ a.answer = "error" BY <2>1 DEF Call, Phases
  <2>3. ~Known(a) /\ Told(a) BY <2>2, UntoldIs
  <2> QED BY <2>2, <2>3 DEF a
<1> QED BY <1>4, <1>5

\* The session answers with its document.
LEMMA AnswerStateKeeps == ASSUME EditInv, AnswerState PROVE EditInv'
<1>0. call \in Call /\ match \in Call /\ left \in Left BY InvIs
<1>1. UNCHANGED <<server, page, queue, left, trouble>> BY DEF AnswerState
<1>2. CASE call.phase = "asked" /\ call' = Read(call) /\ UNCHANGED match
  <2>1. /\ call' \in Call /\ call'.phase = "read" /\ call'.sid = call.sid
        /\ Told(call') /\ (Known(call') => call'.doc.global \subseteq Made(page))
    BY <1>0, <1>2, ReadIs
  <2>2. call # Idle BY <1>2, IdleIs
  <2>3. left'.other <= left.other
    <3>1. left.other \in 0..Others BY <1>0 DEF Left
    <3> QED BY <3>1, <1>1, Bounds
  <2> QED BY <1>0, <1>1, <1>2, <2>1, <2>2, <2>3, HeadAsks
<1>3. CASE match.phase = "asked" /\ match' = Read(match) /\ UNCHANGED call
  <2>1. /\ match' \in Call /\ match'.phase = "read" /\ match'.sid = match.sid
        /\ Told(match') /\ (Known(match') => match'.doc.global \subseteq Made(page))
    BY <1>0, <1>3, ReadIs
  <2>2. match # Idle BY <1>3, IdleIs
  <2>3. Requests'
    <3>1. Requests BY DEF EditInv
    <3>2. (call = Idle \/ (call.phase # "idle" /\ queue # <<>> /\ call.sid = Head(queue).sid))' BY <3>1, <1>1, <1>3 DEF Requests
    <3>3. (match = Idle \/ (match.phase # "idle" /\ match.sid <= page.sid /\ left.other < Others))'
      BY <3>1, <1>1, <2>1, <2>2 DEF Requests
    <3>4. Told(call)' /\ Told(match)' BY <3>1, <2>1, <1>1, <1>3 DEF Requests, Told, Known
    <3>5. (Known(match) => match.doc.global \subseteq Made(page))' BY <2>1, <1>1 DEF Known, Made
    <3>6. (Known(call) => call.doc.global \subseteq Made(page))' BY <3>1, <1>1, <1>3 DEF Requests, Known, Made
    <3>7. (call.phase = "answered" => call.answer # "none")' /\ (match.phase = "answered" => match.answer # "none")'
      BY <3>1, <1>3, <2>1 DEF Requests
    <3>8. (Served(call) /\ call.sid = server.sid =>
             /\ Head(queue).type = "global" => Head(queue).value \subseteq server.ever
             /\ Head(queue).type = "local" => call.doc.local = Head(queue).value)'
      <4>1. Served(call)' <=> Served(call) BY <1>3 DEF Served
      <4> QED BY <4>1, <3>1, <1>1, <1>3 DEF Requests
    <3> QED BY <3>2, <3>3, <3>4, <3>5, <3>6, <3>7, <3>8 DEF Requests
  <2>4. Racing'
    <3>1. Racing BY DEF EditInv
    <3>2. ~Served(match)' BY <2>1 DEF Served
    <3>3. Served(call)' <=> Served(call) BY <1>3 DEF Served
    <3>4. Now(page)' <=> Now(page) BY <1>1 DEF Now
    <3> QED BY <3>1, <3>2, <3>3, <3>4, <1>1, <1>3, <2>1 DEF Racing
  <2>5. Doomed' <=> Doomed BY <1>1, <1>3, DoomedStays
  <2> HIDE DEF Doomed
  <2> QED BY <1>0, <1>1, <1>3, <2>1, <2>3, <2>4, <2>5, AskKeeps
<1> QED BY <1>2, <1>3 DEF AnswerState

\* What the answers say to the page, if they are of its photo.
LEMMA ToldIs ==
  ASSUME EditInv, NEW r \in {call, match}, Known(r), r.sid = page.sid
  PROVE  ToldOf(page, r.doc) /\ r.doc \in Document /\ (Now(page) => r.doc.rev <= server.rev)
<1>1. Requests /\ call \in Call /\ match \in Call BY InvIs DEF EditInv
<1>2. Told(r) /\ r.doc.global \subseteq Made(page) /\ r \in Call BY <1>1 DEF Requests
<1>3. r.doc \in Document BY <1>2 DEF Call
<1>4. Now(page) => r.sid = server.sid BY DEF Now
<1> QED BY <1>2, <1>3, <1>4 DEF Told, ToldOf

\* The page takes it, or the answer to its command.
LEMMA RefreshKeeps == ASSUME EditInv, Refresh PROVE EditInv'
<1> DEFINE t == trouble \cup {"failed"}
           p == refreshEditState(page, call)
<1>1. call.phase = "read" /\ Complete(p, FALSE) /\ UNCHANGED <<server, match, left>> BY DEF Refresh
<1>2. queue # <<>> BY <1>1, IdleIs DEF EditInv, Requests
<1>3. page \in Page /\ InPage(page, queue, <<>>, 0, trouble, Doomed) BY InvIs
<1>4. InPage(page, queue, <<>>, 0, t, Doomed)
  <2> HIDE DEF Doomed
  <2> QED BY <1>3, Weaker
<1>5. CASE call.answer = "ok" /\ page.sid = call.sid
  <2> DEFINE doc == call.doc
  <2>1. ToldOf(page, doc) /\ doc \in Document /\ (Now(page) => doc.rev <= server.rev)
    <3>1. Known(call) BY <1>1, <1>5 DEF Known
    <3> QED BY <3>1, <1>5, ToldIs
  <2>2. p = [page EXCEPT !.rev = doc.rev, !.adj = doc.global, !.locals = doc.local] BY <1>5 DEF refreshEditState
  <2> HIDE DEF p, doc
  <2>3. InPage(p, queue, <<>>, 0, t, Doomed)
    <3>1. "failed" \in t OBVIOUS
    <3> HIDE DEF t, Doomed
    <3> QED BY <3>1, <2>1, <2>2, <1>4, MoveRefresh
  <2>4. p.sid = page.sid /\ p.drags = page.drags /\ p.rev = doc.rev BY <1>3, <2>2 DEF Page
  <2>5. Now(page) => p.rev <= server.rev BY <2>1, <2>4
  <2>6. t = trouble \cup IF FALSE THEN {} ELSE {"failed"} OBVIOUS
  <2> HIDE DEF t, Doomed
  <2>7. Complete(p, FALSE) BY <1>1
  <2> QED BY <1>1, <1>2, <2>3, <2>4, <2>5, <2>6, <2>7, CompleteKeeps
<1>6. CASE ~(call.answer = "ok" /\ page.sid = call.sid)
  <2>1. p = page BY <1>6 DEF refreshEditState
  <2>2. Complete(page, FALSE) BY <1>1, <2>1
  <2> QED BY <1>1, <1>2, <2>2, FailKeeps
<1> QED BY <1>5, <1>6

LEMMA ReceiveKeeps == ASSUME EditInv, Receive PROVE EditInv'
<1> DEFINE c == Head(queue)
<1>1. call.phase = "answered" /\ UNCHANGED <<server, match, left>> BY DEF Receive
<1>2. queue # <<>> /\ call.sid = c.sid /\ call # Idle /\ call.answer # "none" BY <1>1, IdleIs DEF EditInv, Requests
<1>3. page \in Page /\ call \in Call /\ left \in Left BY InvIs
<1>4. call.answer \in {"ok", "error", "conflict"} BY <1>2, <1>3 DEF Call
<1>5. CASE c.sid # page.sid
  <2>1. Complete(page, FALSE) BY <1>5 DEF Receive
  <2> QED BY <2>1, <1>1, <1>2, FailKeeps
<1>6. CASE c.sid = page.sid /\ call.answer = "error"
  <2>1. Complete(page, FALSE) BY <1>6 DEF Receive
  <2> QED BY <2>1, <1>1, <1>2, FailKeeps
<1>7. CASE c.sid = page.sid /\ call.answer = "conflict"
  <2>1. call' = [call EXCEPT !.phase = "asked"] /\ UNCHANGED <<page, queue, trouble>> BY <1>7 DEF Receive
  <2>2. call' \in Call /\ call'.phase = "asked" /\ call'.sid = call.sid BY <2>1, <1>3 DEF Call, Phases
  <2>3. ~Known(call') /\ Told(call') BY <2>2 DEF Known, Told
  <2>4. left'.other <= left.other
    <3>1. left.other \in 0..Others BY <1>3 DEF Left
    <3> QED BY <3>1, <1>1, Bounds
  <2> QED BY <1>1, <1>2, <1>3, <2>1, <2>2, <2>3, <2>4, HeadAsks
<1>8. CASE c.sid = page.sid /\ call.answer = "ok"
  <2> DEFINE doc == call.doc
             p == Taken(page, c, doc)
  <2>1. Complete(p, TRUE) BY <1>8 DEF Receive
  <2>2. Served(call) /\ Known(call) /\ call.sid = page.sid BY <1>1, <1>2, <1>8 DEF Served, Known
  <2>3. ToldOf(page, doc) /\ doc \in Document /\ (Now(page) => doc.rev <= server.rev) BY <2>2, ToldIs
  <2>4. ~Doomed BY <1>1, <1>8, <2>2 DEF Doomed
  <2>5. InPage(page, queue, <<>>, 0, trouble, FALSE)
    <3> DEFINE d == Doomed
    <3>1. InPage(page, queue, <<>>, 0, trouble, d) /\ ~d BY <2>4, InvIs
    <3> HIDE DEF d, Doomed
    <3> QED BY <3>1, Weaker
  <2>6. Now(page) => /\ c.type = "global" => c.value \subseteq server.ever
                     /\ c.type = "local" => c.value = doc.local
    <3>1. Now(page) => call.sid = server.sid BY <2>2 DEF Now
    <3> QED BY <3>1, <2>2 DEF EditInv, Requests
  <2> HIDE DEF doc
  <2>7. InPage(p, queue, <<>>, 0, trouble, FALSE) /\ Ready(p, c, trouble, FALSE)
    BY <1>2, <1>8, <2>3, <2>5, <2>6, MoveTake
  <2>8. p.sid = page.sid /\ p.rev = doc.rev /\ p.drags = page.drags BY <1>3, <2>3, TakenIs
  <2> HIDE DEF p
  <2>9. Now(page) => p.rev <= server.rev BY <2>3, <2>8
  <2>10. Now(page) /\ "failed" \notin trouble => page.rev <= p.rev /\ ~(Served(match) /\ match.sid = page.sid)
    <3>1. Now(page) /\ "failed" \notin trouble => page.rev < doc.rev /\ ~(Served(match) /\ match.sid = page.sid)
      BY <2>2 DEF EditInv, Racing, doc
    <3>2. page.rev \in Nat /\ doc.rev \in Nat BY <2>3, InvIs DEF Document
    <3> QED BY <3>1, <3>2, <2>8
  <2>11. trouble = trouble \cup IF TRUE THEN {} ELSE {"failed"} OBVIOUS
  <2> QED BY <1>1, <1>2, <1>8, <2>1, <2>7, <2>8, <2>9, <2>10, <2>11, CompleteKeeps
<1> QED BY <1>4, <1>5, <1>6, <1>7, <1>8

\* The document of a session.
LEMMA SnapshotIs ==
  ASSUME NEW s \in Session
  PROVE  /\ Snapshot(s) \in Document /\ Snapshot(s).global = s.global /\ Snapshot(s).local = s.local
         /\ Snapshot(s).rev = s.rev
BY DEF Snapshot, Session, Document

\* The session takes one more command of the photo of the page.
LEMMA AdvanceKeeps ==
  ASSUME EditInv, Now(page), NEW s \in Session, server' = s, s.sid = server.sid, s.rev = server.rev + 1,
         History(s, page.drags, "failed" \notin trouble), server.ever \subseteq s.ever, s.ever \subseteq Made(page),
         UNCHANGED <<page, queue, left, trouble>>, call' \in Call, match' \in Call, Requests', Racing',
         "failed" \notin trouble => (Doomed => Doomed')
  PROVE  EditInv'
<1>1. page.rev \in Nat /\ server.rev \in Nat /\ server.sid \in Nat /\ page.sid \in Nat /\ left \in Left
      /\ trouble \subseteq Troubles
  BY InvIs
<1>2. page.rev <= server.rev BY DEF EditInv, Revisions
<1>3. page.rev < s.rev /\ page.rev <= s.rev /\ s.rev \in Nat BY <1>1, <1>2
<1>4. InPageNow'
  <2>1. InPageNow BY DEF EditInv, InPageNow
  <2> HIDE DEF Doomed, InPageNow
  <2> QED BY <2>1, <1>1, <1>3, AdvanceMoves
<1>5. Now(page)' BY DEF Now
<1>6. Fresh' BY <1>5 DEF Fresh
<1>7. Revisions' BY <1>3 DEF Revisions
<1>8. Counted' BY DEF EditInv, Counted, Made
<1>9. History(server, page.drags, "failed" \notin trouble)'
  <2> DEFINE ok == "failed" \notin trouble
  <2>1. History(s, page.drags, ok) /\ (ok <=> "failed" \notin trouble') OBVIOUS
  <2> HIDE DEF ok
  <2> QED BY <2>1 DEF History, Sound, EntryOK, OfDrag, Apart
<1>10. Shapes' BY <1>1 DEF Shapes
<1> QED BY <1>4, <1>6, <1>7, <1>8, <1>9, <1>10 DEF EditInv, InPageNow

\* The session answers a command.
LEMMA ServeKeeps == ASSUME EditInv, Serve PROVE EditInv'
<1> DEFINE c == Head(queue)
<1>1. call.phase = "sent" /\ UNCHANGED <<page, queue, match, left, trouble>> BY DEF Serve
<1>2. queue # <<>> /\ call.sid = c.sid /\ call # Idle BY <1>1, IdleIs DEF EditInv, Requests
<1>3. page \in Page /\ call \in Call /\ match \in Call /\ left \in Left /\ server \in Session /\ queue \in Seq(Commands) BY InvIs
<1>4. CASE call.sid # server.sid \/ call.rev # server.rev \/ Refused(server, c)
  <2>1. /\ UNCHANGED server
        /\ \/ call' = [call EXCEPT !.phase = "answered", !.answer = "error"]
           \/ call' = [call EXCEPT !.phase = "answered", !.answer = "conflict"]
    BY <1>4 DEF Serve
  <2>2. call' \in Call /\ call'.phase = "answered" /\ call'.sid = call.sid /\ call'.answer \in {"error", "conflict"}
    BY <2>1, <1>3 DEF Call, Phases
  <2>3. ~Known(call') /\ Told(call') BY <2>2, UntoldIs
  <2>4. left'.other <= left.other
    <3>1. left.other \in 0..Others BY <1>3 DEF Left
    <3> QED BY <3>1, <1>1, Bounds
  <2> QED BY <1>1, <1>2, <1>3, <2>1, <2>2, <2>3, <2>4, HeadAsks
<1>5. CASE call.sid = server.sid /\ call.rev = server.rev /\ ~Refused(server, c)
  <2> DEFINE s == Applied(server, c)
             doc == Snapshot(s)
             ok == "failed" \notin trouble
  <2>1. server' = s /\ call' = [call EXCEPT !.phase = "answered", !.answer = "ok", !.doc = doc]
    BY <1>5 DEF Serve
  <2>2. 1 \in DOMAIN queue /\ queue[1] = c /\ c \in Commands BY <1>2, <1>3, PopIs
  <2>3. Now(page) /\ c.sid = page.sid
    <3>1. c.sid <= page.sid /\ page.sid <= server.sid BY <2>2 DEF EditInv, InPage, Sessions
    <3>2. c.sid = server.sid BY <1>2, <1>5
    <3>3. page.sid \in Nat /\ server.sid \in Nat BY InvIs
    <3> QED BY <3>1, <3>2, <3>3 DEF Now
  <2>4. History(server, page.drags, ok) BY DEF EditInv
  <2>5. ok /\ c.type = "global" => \A x \in (c.value \ server.ever) \cap DOMAIN page.drags : page.drags[x] \in {NoGroup, c.group}
    <3> SUFFICES ASSUME ok, c.type = "global",
                        NEW x \in (c.value \ server.ever) \cap DOMAIN page.drags
                 PROVE  page.drags[x] \in {NoGroup, c.group}
      OBVIOUS
    <3>1. 1 \in Pending(page, queue) BY <2>2, <2>3 DEF Pending
    <3>2. Values(page, queue, 0) = {} BY <1>2, <1>3, PopValues
    <3>3. 1 - 1 = 0 OBVIOUS
    <3>4. x \in (queue[1].value \cap DOMAIN page.drags) \ (server.ever \cup Values(page, queue, 1 - 1)) BY <3>2, <3>3, <2>2
    <3>5. Dragged(page, queue, <<>>, 0, trouble) BY DEF EditInv, InPage
    <3>6. page.drags[x] \in {NoGroup, queue[1].group} BY <3>1, <3>4, <3>5, <2>3 DEF Dragged
    <3> QED BY <3>6, <2>2
  <2> HIDE DEF ok
  <2>6. AppliedTo(server, c, page.drags, ok, s) BY <1>3, <1>5, <2>2, <2>4, <2>5, AppliedIs
  <2> HIDE DEF s
  <2>7. /\ s \in Session /\ s.sid = server.sid /\ s.rev = server.rev + 1 /\ History(s, page.drags, ok)
        /\ server.ever \subseteq s.ever
        /\ c.type = "global" => c.value \subseteq s.ever
        /\ c.type # "global" => s.ever = server.ever
        /\ c.type = "global" => s.ever = server.ever \cup c.value
        /\ c.type = "local" => s.local = c.value
    BY <2>6 DEF AppliedTo
  <2>8. s.ever \subseteq Made(page)
    <3>1. server.ever \subseteq Made(page) BY DEF EditInv, Counted
    <3>2. c.type = "global" => c.value \subseteq Made(page) BY <2>2 DEF EditInv, InPage, Gestures
    <3> QED BY <3>1, <3>2, <2>7
  <2>9. doc \in Document /\ doc.global = s.global /\ doc.local = s.local /\ doc.rev = s.rev BY <2>7, SnapshotIs
  <2> HIDE DEF doc
  <2>10. call' \in Call /\ call'.phase = "answered" /\ call'.answer = "ok" /\ call'.doc = doc /\ call'.sid = call.sid
    BY <2>1, <2>9, <1>3 DEF Call, Phases
  <2>11. s.global \subseteq s.ever BY <2>7 DEF History
  <2>12. server.rev \in Nat /\ page.rev \in Nat /\ page.rev <= server.rev BY <2>3, InvIs DEF EditInv, Revisions
  <2>13. Requests'
    <3>1. Requests BY DEF EditInv
    <3>2. Told(call)' BY <2>1, <2>7, <2>9, <2>10, <2>11, <2>12 DEF Told
    <3>3. Told(match)'
      <4> SUFFICES ASSUME Known(match), match.sid = server.sid PROVE Told(match)' BY <1>1, <2>1, <2>7 DEF Told, Known
      <4>1. match.doc.rev <= server.rev /\ match.doc.global \subseteq server.ever BY <3>1 DEF Requests, Told
      <4>2. match.doc.rev \in Nat BY <1>3 DEF Call, Document
      <4>3. match.doc.rev <= s.rev /\ match.doc.rev # s.rev BY <4>1, <4>2, <2>7, <2>12
      <4> QED BY <4>1, <4>3, <1>1, <2>1, <2>7 DEF Told
    <3>4. (match = Idle \/ (match.phase # "idle" /\ match.sid <= page.sid /\ left.other < Others))' BY <3>1, <1>1 DEF Requests
    <3>5. (call = Idle \/ (call.phase # "idle" /\ queue # <<>> /\ call.sid = Head(queue).sid))' BY <1>1, <1>2, <2>10
    <3>6. (Known(call) => call.doc.global \subseteq Made(page))' BY <1>1, <2>8, <2>9, <2>10, <2>11 DEF Made
    <3>7. (Known(match) => match.doc.global \subseteq Made(page))' BY <3>1, <1>1 DEF Requests, Known, Made
    <3>8. (Served(call) /\ call.sid = server.sid =>
             /\ Head(queue).type = "global" => Head(queue).value \subseteq server.ever
             /\ Head(queue).type = "local" => call.doc.local = Head(queue).value)'
      BY <1>1, <2>1, <2>7, <2>9, <2>10
    <3>9. (call.phase = "answered" => call.answer # "none")' /\ (match.phase = "answered" => match.answer # "none")'
      BY <3>1, <1>1, <2>10 DEF Requests
    <3> QED BY <3>2, <3>3, <3>4, <3>5, <3>6, <3>7, <3>8, <3>9 DEF Requests
  <2>14. Racing'
    <3> SUFFICES ASSUME ok PROVE Racing' BY <1>1 DEF Racing, ok
    <3>1. Racing BY DEF EditInv
    <3>2. Served(match)' <=> Served(match) BY <1>1 DEF Served
    <3>3. page.rev < doc.rev BY <2>7, <2>9, <2>12
    <3>4. call.rev <= page.rev BY <3>1, <1>1, <1>2, <2>3 DEF Racing, ok
    <3>5. ~(Served(match) /\ match.sid = page.sid)
      <4> SUFFICES ASSUME Served(match), match.sid = page.sid PROVE FALSE OBVIOUS
      <4>1. page.rev < match.doc.rev BY <3>1, <2>3 DEF Racing, ok
      <4>2. Known(match) /\ match.sid = server.sid BY <2>3 DEF Served, Known, Now
      <4>3. match.doc.rev <= server.rev BY <4>2 DEF EditInv, Requests, Told
      <4>4. match.doc.rev \in Nat BY <1>3 DEF Call, Document
      <4> QED BY <4>1, <4>3, <4>4, <3>4, <1>5, <2>12
    <3> QED BY <3>1, <3>2, <3>3, <3>5, <1>1, <2>3, <2>10 DEF Racing, ok, Now
  <2>15. ~Doomed BY <1>1, <1>2, <1>5, <2>3 DEF Doomed
  <2>16. match' \in Call BY <1>1, <1>3
  <2> HIDE DEF Doomed
  <2> QED BY <1>1, <2>1, <2>3, <2>7, <2>8, <2>10, <2>13, <2>14, <2>15, <2>16, AdvanceKeeps DEF ok
<1> QED BY <1>4, <1>5

\* SDR Match asks, or is refused.
LEMMA MatchAsks ==
  ASSUME EditInv, UNCHANGED <<server, page, queue, call, trouble>>, left' \in Left, left'.slide = left.slide,
         left'.other < Others, match' \in Call, match'.phase \in {"sent", "answered"}, match'.sid <= page.sid,
         match'.answer # "ok", match'.phase = "answered" => match'.answer # "none",
         match'.phase = "sent" => match'.rev <= page.rev
  PROVE  EditInv'
<1>1. ~Known(match') /\ ~Served(match') /\ Told(match') BY UntoldIs
<1>2. Requests'
  <2>1. Requests BY DEF EditInv
  <2>2. (call = Idle \/ (call.phase # "idle" /\ queue # <<>> /\ call.sid = Head(queue).sid))' BY <2>1 DEF Requests
  <2>3. (match = Idle \/ (match.phase # "idle" /\ match.sid <= page.sid /\ left.other < Others))' OBVIOUS
  <2>4. Told(call)' /\ Told(match)' BY <2>1, <1>1 DEF Requests, Told, Known
  <2>5. ~Known(match)' BY <1>1 DEF Known
  <2>6. (Known(call) => call.doc.global \subseteq Made(page))' BY <2>1 DEF Requests, Known, Made
  <2>7. (call.phase = "answered" => call.answer # "none")' /\ (match.phase = "answered" => match.answer # "none")'
    BY <2>1 DEF Requests
  <2>8. (Served(call) /\ call.sid = server.sid =>
           /\ Head(queue).type = "global" => Head(queue).value \subseteq server.ever
           /\ Head(queue).type = "local" => call.doc.local = Head(queue).value)'
    <3>1. Served(call)' <=> Served(call) BY DEF Served
    <3> QED BY <3>1, <2>1 DEF Requests
  <2> QED BY <2>2, <2>3, <2>4, <2>5, <2>6, <2>7, <2>8 DEF Requests
<1>3. Racing'
  <2>1. Racing BY DEF EditInv
  <2>2. ~Served(match)' BY <1>1 DEF Served
  <2>3. Served(call)' <=> Served(call) BY DEF Served
  <2>4. Now(page)' <=> Now(page) BY DEF Now
  <2> QED BY <2>1, <2>2, <2>3, <2>4 DEF Racing
<1>4. Doomed' <=> Doomed BY DoomedStays
<1>5. call' \in Call BY InvIs
<1> HIDE DEF Doomed
<1> QED BY <1>2, <1>3, <1>4, <1>5, AskKeeps

\* SDR Match is pressed, and answered.
LEMMA SetSdrMatchKeeps == ASSUME EditInv, setSdrMatch PROVE EditInv'
<1>1. left \in Left /\ page.sid \in Nat /\ page.rev \in Nat BY InvIs
<1>2. /\ Spend("other") /\ match' = [Idle EXCEPT !.phase = "sent", !.sid = page.sid, !.rev = page.rev]
      /\ UNCHANGED <<server, page, queue, call, trouble>>
  BY DEF setSdrMatch
<1>3. left' \in Left /\ left'.slide = left.slide /\ left'.other = left.other - 1 BY <1>1, <1>2, SpendIs
<1>4. left'.other < Others
  <2>1. left.other \in 0..Others BY <1>1 DEF Left
  <2> QED BY <2>1, <1>3, Bounds
<1>5. /\ match' \in Call /\ match'.phase = "sent" /\ match'.sid = page.sid /\ match'.rev = page.rev
      /\ match'.answer = "none"
  <2>1. Idle \in Call /\ Idle.answer = "none" BY IdleIs
  <2> QED BY <1>1, <1>2, <2>1 DEF Call, Phases
<1>6. match'.sid <= page.sid /\ match'.rev <= page.rev BY <1>1, <1>5
<1> QED BY <1>2, <1>3, <1>4, <1>5, <1>6, MatchAsks

LEMMA ServeMatchKeeps == ASSUME EditInv, ServeMatch PROVE EditInv'
<1>1. match.phase = "sent" /\ UNCHANGED <<page, queue, call, left, trouble>> BY DEF ServeMatch
<1>2. match # Idle BY <1>1, IdleIs
<1>3. match.sid <= page.sid /\ left.other < Others BY <1>2 DEF EditInv, Requests
<1>4. page \in Page /\ call \in Call /\ match \in Call /\ left \in Left /\ server \in Session BY InvIs
<1>5. CASE match.sid # server.sid \/ match.rev # server.rev
  <2>1. /\ UNCHANGED server
        /\ \/ match' = [match EXCEPT !.phase = "answered", !.answer = "error"]
           \/ match' = [match EXCEPT !.phase = "answered", !.answer = "conflict"]
    BY <1>5 DEF ServeMatch
  <2>2. match' \in Call /\ match'.phase = "answered" /\ match'.sid = match.sid /\ match'.answer \in {"error", "conflict"}
    BY <2>1, <1>4 DEF Call, Phases
  <2> QED BY <1>1, <1>3, <1>4, <2>1, <2>2, MatchAsks
<1>6. CASE match.sid = server.sid /\ match.rev = server.rev
  <2> DEFINE e == Slides + Others - left.other
             value == server.global \cup {e}
             s == Edited(server, "global", value, NoGroup)
             doc == Snapshot(s)
             ok == "failed" \notin trouble
  <2>1. server' = s /\ match' = [match EXCEPT !.phase = "answered", !.answer = "ok", !.doc = doc]
    BY <1>6 DEF ServeMatch
  <2>2. page.sid \in Nat /\ server.sid \in Nat /\ page.sid <= server.sid BY InvIs
  <2>3. Now(page) /\ match.sid = page.sid BY <1>3, <1>6, <2>2 DEF Now
  <2>4. History(server, page.drags, ok) BY DEF EditInv
  <2>5. e \in GlobalIds /\ e \in Made(page) /\ e \notin DOMAIN page.drags
    <3> DEFINE a == left.other
               n == Len(page.drags)
               b == left.slide
    <3>1. a \in 0..Others /\ a < Others /\ b \in 0..Slides BY <1>3, <1>4 DEF Left
    <3>2. n = Slides - b BY DEF EditInv, Counted
    <3>3. page.drags \in Seq(Nat) BY <1>4 DEF Page
    <3>4. n \in Nat /\ DOMAIN page.drags = 1..n BY <3>3
    <3>5. e = Slides + Others - a OBVIOUS
    <3> HIDE DEF a, b, n, e
    <3>6. e \in Nat /\ e >= Slides + 1 /\ e <= Slides + Others /\ n <= Slides BY <3>1, <3>2, <3>4, <3>5, Bounds
    <3>7. e \in GlobalIds BY <3>6, Bounds DEF GlobalIds
    <3>8. e \in Made(page) BY <3>6, Bounds DEF Made
    <3>9. e \notin 1..n BY <3>4, <3>6, Bounds
    <3> QED BY <3>4, <3>7, <3>8, <3>9
  <2> HIDE DEF e
  <2>6. server.global \subseteq server.ever /\ server.global \subseteq GlobalIds BY <2>4, <1>4 DEF History, Session
  <2>7. value \subseteq GlobalIds BY <2>5, <2>6
  <2>8. \A x \in (value \ server.ever) \cap DOMAIN page.drags : page.drags[x] \in {NoGroup, NoGroup} BY <2>5, <2>6
  <2>9. NoGroup \in Nat BY DEF NoGroup
  <2> HIDE DEF ok, value
  <2>10. EditedTo(server, "global", value, page.drags, ok, s)
    <3>1. value \in IF "global" = "global" THEN SUBSET GlobalIds ELSE SUBSET LocalIds BY <2>7
    <3>2. "global" \in {"global", "local"} OBVIOUS
    <3>3. \A group : group = NoGroup => \A x \in (value \ server.ever) \cap DOMAIN page.drags : page.drags[x] \in {NoGroup, group}
      BY <2>8
    <3> HIDE DEF s
    <3> QED BY <3>1, <3>2, <3>3, <1>4, <2>4, <2>9, EditedIs DEF s
  <2> HIDE DEF s
  <2>11. /\ s \in Session /\ s.sid = server.sid /\ s.rev = server.rev + 1 /\ History(s, page.drags, ok)
         /\ server.ever \subseteq s.ever /\ s.ever = server.ever \cup value
    BY <2>10 DEF EditedTo
  <2>12. s.ever \subseteq Made(page)
    <3>1. server.ever \subseteq Made(page) BY DEF EditInv, Counted
    <3> QED BY <3>1, <2>5, <2>6, <2>11 DEF value
  <2>13. doc \in Document /\ doc.global = s.global /\ doc.local = s.local /\ doc.rev = s.rev BY <2>11, SnapshotIs
  <2> HIDE DEF doc
  <2>14. match' \in Call /\ match'.phase = "answered" /\ match'.answer = "ok" /\ match'.doc = doc /\ match'.sid = match.sid
    BY <2>1, <2>13, <1>4 DEF Call, Phases
  <2>15. s.global \subseteq s.ever BY <2>11 DEF History
  <2>16. server.rev \in Nat /\ page.rev \in Nat /\ page.rev <= server.rev BY <2>3, InvIs DEF EditInv, Revisions
  <2>17. Requests'
    <3>1. Requests BY DEF EditInv
    <3>2. Told(match)' BY <2>1, <2>11, <2>13, <2>14, <2>15, <2>16 DEF Told
    <3>3. Told(call)'
      <4> SUFFICES ASSUME Known(call), call.sid = server.sid PROVE Told(call)' BY <1>1, <2>1, <2>11 DEF Told, Known
      <4>1. call.doc.rev <= server.rev /\ call.doc.global \subseteq server.ever BY <3>1 DEF Requests, Told
      <4>2. call.doc.rev \in Nat BY <1>4 DEF Call, Document
      <4>3. call.doc.rev <= s.rev /\ call.doc.rev # s.rev BY <4>1, <4>2, <2>11, <2>16
      <4> QED BY <4>1, <4>3, <1>1, <2>1, <2>11 DEF Told
    <3>4. (match = Idle \/ (match.phase # "idle" /\ match.sid <= page.sid /\ left.other < Others))' BY <1>1, <1>3, <2>14
    <3>5. (call = Idle \/ (call.phase # "idle" /\ queue # <<>> /\ call.sid = Head(queue).sid))' BY <3>1, <1>1 DEF Requests
    <3>6. (Known(match) => match.doc.global \subseteq Made(page))' BY <1>1, <2>12, <2>13, <2>14, <2>15 DEF Made
    <3>7. (Known(call) => call.doc.global \subseteq Made(page))' BY <3>1, <1>1 DEF Requests, Known, Made
    <3>8. (Served(call) /\ call.sid = server.sid =>
             /\ Head(queue).type = "global" => Head(queue).value \subseteq server.ever
             /\ Head(queue).type = "local" => call.doc.local = Head(queue).value)'
      <4>1. Served(call)' <=> Served(call) BY <1>1 DEF Served
      <4> QED BY <4>1, <3>1, <1>1, <2>1, <2>11 DEF Requests
    <3>9. (call.phase = "answered" => call.answer # "none")' /\ (match.phase = "answered" => match.answer # "none")'
      BY <3>1, <1>1, <2>14 DEF Requests
    <3> QED BY <3>2, <3>3, <3>4, <3>5, <3>6, <3>7, <3>8, <3>9 DEF Requests
  <2>18. Racing'
    <3> SUFFICES ASSUME ok PROVE Racing' BY <1>1 DEF Racing, ok
    <3>1. Racing BY DEF EditInv
    <3>2. Served(call)' <=> Served(call) BY <1>1 DEF Served
    <3>3. page.rev < doc.rev BY <2>11, <2>13, <2>16
    <3>4. match.rev <= page.rev BY <3>1, <1>1, <2>3 DEF Racing, ok
    <3>5. ~(Served(call) /\ call.sid = page.sid)
      <4> SUFFICES ASSUME Served(call), call.sid = page.sid PROVE FALSE OBVIOUS
      <4>1. page.rev < call.doc.rev BY <3>1, <2>3 DEF Racing, ok
      <4>2. Known(call) /\ call.sid = server.sid BY <2>3 DEF Served, Known, Now
      <4>3. call.doc.rev <= server.rev BY <4>2 DEF EditInv, Requests, Told
      <4>4. call.doc.rev \in Nat BY <1>4 DEF Call, Document
      <4> QED BY <4>1, <4>3, <4>4, <3>4, <1>6, <2>16
    <3> QED BY <3>1, <3>2, <3>3, <3>5, <1>1, <2>3, <2>14 DEF Racing, ok, Now
  <2>19. ok => (Doomed => Doomed')
    <3> SUFFICES ASSUME ok, Doomed PROVE Doomed' OBVIOUS
    <3>1. CASE call.phase = "sent" /\ call.sid = page.sid /\ call.rev # server.rev
      <4>1. call.rev <= page.rev BY <3>1, <2>3 DEF EditInv, Racing, ok
      <4>2. call.rev \in Nat BY <1>4 DEF Call
      <4>3. call.rev # s.rev BY <4>1, <4>2, <2>11, <2>16
      <4> QED BY <4>3, <3>1, <1>1, <2>1 DEF Doomed
    <3>2. CASE call # Idle /\ call.sid # page.sid BY <3>2, <1>1 DEF Doomed
    <3>3. CASE call.phase = "answered" /\ call.answer # "ok" BY <3>3, <1>1 DEF Doomed
    <3>4. CASE call.phase \in {"asked", "read"} BY <3>4, <1>1 DEF Doomed
    <3>5. call.phase = "sent" => call # Idle BY IdleIs
    <3> QED BY <3>1, <3>2, <3>3, <3>4, <3>5 DEF Doomed
  <2>20. call' \in Call BY <1>1, <1>4
  <2> HIDE DEF Doomed
  <2> QED BY <1>1, <2>1, <2>3, <2>11, <2>12, <2>14, <2>17, <2>18, <2>19, <2>20, AdvanceKeeps DEF ok
<1> QED BY <1>5, <1>6

\* While the page shows another photo than the session has, no stroke is counted.
LEMMA AnyDoom ==
  ASSUME NEW p, NEW q, NEW w, NEW n, NEW t, NEW d, InPage(p, q, w, n, t, d), ~Now(p), NEW e
  PROVE  InPage(p, q, w, n, t, e)
<1>1. Strokes(p, q, w, n, t, e) BY DEF Strokes
<1> QED BY <1>1 DEF InPage

\* The continuation of SDR Match: its request ends, or asks again.
LEMMA MatchEnds ==
  ASSUME EditInv, UNCHANGED <<server, queue, call, left>>, NEW x, NEW s, NEW d, page' = x, trouble' = s,
         InPage(x, queue, <<>>, 0, s, d), "failed" \in s \/ (d => Doomed'), trouble \subseteq s, s \subseteq Troubles,
         x.sid = page.sid, x.drags = page.drags, Now(page) => x.rev <= server.rev,
         match' = Idle \/ (match # Idle /\ match' = [match EXCEPT !.phase = "asked"] /\ "failed" \in s),
         Now(page) /\ "failed" \notin s =>
           /\ call.phase = "sent" /\ call.sid = page.sid => call.rev <= x.rev
           /\ Served(call) /\ call.sid = page.sid => x.rev < call.doc.rev
  PROVE  EditInv'
<1>1. match' \in Call /\ ~Known(match') /\ ~Served(match') /\ Told(match') /\ match'.phase \in {"idle", "asked"}
      /\ (match' = Idle \/ (match # Idle /\ match'.sid = match.sid /\ match'.phase = "asked"))
  <2>1. CASE match' = Idle BY <2>1, IdleIs
  <2>2. CASE match # Idle /\ match' = [match EXCEPT !.phase = "asked"]
    <3>1. match \in Call BY InvIs
    <3>2. match' \in Call /\ match'.phase = "asked" /\ match'.sid = match.sid BY <2>2, <3>1 DEF Call, Phases
    <3> QED BY <2>2, <3>2 DEF Known, Served, Told
  <2> QED BY <2>1, <2>2
<1>2. /\ Fresh' /\ Revisions' /\ Counted' /\ History(server, page.drags, "failed" \notin trouble)'
      /\ Made(page)' = Made(page)
  BY StillKeeps
<1>3. InPageNow'
  <2> HIDE DEF Doomed
  <2> QED BY Became
<1>4. Shapes' BY <1>1, InvIs DEF Shapes
<1>5. Requests'
  <2>1. Requests BY DEF EditInv
  <2>2. (call = Idle \/ (call.phase # "idle" /\ queue # <<>> /\ call.sid = Head(queue).sid))' BY <2>1 DEF Requests
  <2>3. (match = Idle \/ (match.phase # "idle" /\ match.sid <= page.sid /\ left.other < Others))' BY <1>1, <2>1 DEF Requests
  <2>4. Told(call)' /\ Told(match)' BY <2>1, <1>1 DEF Requests, Told, Known
  <2>5. ~Known(match)' BY <1>1 DEF Known
  <2>6. (Known(call) => call.doc.global \subseteq Made(page))' BY <2>1, <1>2 DEF Requests, Known
  <2>7. (call.phase = "answered" => call.answer # "none")' /\ (match.phase = "answered" => match.answer # "none")'
    BY <2>1, <1>1 DEF Requests
  <2>8. (Served(call) /\ call.sid = server.sid =>
           /\ Head(queue).type = "global" => Head(queue).value \subseteq server.ever
           /\ Head(queue).type = "local" => call.doc.local = Head(queue).value)'
    <3>1. Served(call)' <=> Served(call) BY DEF Served
    <3> QED BY <3>1, <2>1 DEF Requests
  <2> QED BY <2>2, <2>3, <2>4, <2>5, <2>6, <2>7, <2>8 DEF Requests
<1>6. Racing'
  <2> SUFFICES ASSUME "failed" \notin s PROVE Racing' BY DEF Racing
  <2>1. Racing BY DEF EditInv
  <2>2. ~Served(match)' BY <1>1 DEF Served
  <2>3. Served(call)' <=> Served(call) BY DEF Served
  <2>4. Now(page)' <=> Now(page) BY DEF Now
  <2>5. match' = Idle OBVIOUS
  <2>6. match'.phase = "idle" BY <2>5, IdleIs
  <2> QED BY <2>1, <2>2, <2>3, <2>4, <2>6 DEF Racing
<1> QED BY <1>2, <1>3, <1>4, <1>5, <1>6 DEF EditInv, InPageNow

\* The page as it is: its request is over, whatever it said.
LEMMA MatchOver ==
  ASSUME EditInv, UNCHANGED <<server, page, queue, call, left>>, trouble \subseteq trouble', trouble' \subseteq Troubles,
         match' = Idle \/ (match # Idle /\ match' = [match EXCEPT !.phase = "asked"] /\ "failed" \in trouble')
  PROVE  EditInv'
<1> DEFINE d == Doomed
           s == trouble'
<1>1. InPage(page, queue, <<>>, 0, trouble, d) BY InvIs
<1>2. Doomed' <=> Doomed BY DoomedStays
<1>3. "failed" \in s \/ (d => Doomed') BY <1>2
<1>4. Now(page) => page.rev <= server.rev BY DEF EditInv, Revisions
<1>5. Now(page) /\ "failed" \notin s =>
           /\ call.phase = "sent" /\ call.sid = page.sid => call.rev <= page.rev
           /\ Served(call) /\ call.sid = page.sid => page.rev < call.doc.rev
  <2>1. "failed" \notin s => "failed" \notin trouble OBVIOUS
  <2> QED BY <2>1 DEF EditInv, Racing
<1> HIDE DEF d, Doomed
<1>6. InPage(page, queue, <<>>, 0, s, d) BY <1>1, Weaker
<1>7. page' = page /\ trouble' = s OBVIOUS
<1> HIDE DEF s
<1>8. trouble \subseteq s /\ s \subseteq Troubles BY DEF s
<1>9. match' = Idle \/ (match # Idle /\ match' = [match EXCEPT !.phase = "asked"] /\ "failed" \in s) BY DEF s
<1> QED BY <1>3, <1>4, <1>5, <1>6, <1>7, <1>8, <1>9, MatchEnds

\* The document that came with the request of Match becomes that of the page.
LEMMA MatchTakes ==
  ASSUME EditInv, UNCHANGED <<server, queue, call, left, trouble>>, match' = Idle,
         page' = refreshEditState(page, match), Known(match), match.sid = page.sid,
         Now(page) /\ "failed" \notin trouble =>
           /\ queue = <<>> \/ Doomed
           /\ call.phase = "sent" /\ call.sid = page.sid => call.rev <= match.doc.rev
           /\ ~(Served(call) /\ call.sid = page.sid)
  PROVE  EditInv'
<1> DEFINE doc == match.doc
           x == [page EXCEPT !.rev = doc.rev, !.adj = doc.global, !.locals = doc.local]
<1>1. page \in Page /\ InPage(page, queue, <<>>, 0, trouble, Doomed) BY InvIs
<1>2. ToldOf(page, doc) /\ doc \in Document /\ (Now(page) => doc.rev <= server.rev) BY ToldIs
<1>3. page' = x BY DEF refreshEditState, Known
<1> HIDE DEF doc
<1>4. x.sid = page.sid /\ x.drags = page.drags /\ x.rev = doc.rev BY <1>1 DEF Page
<1>5. Doomed' <=> Doomed BY <1>3, <1>4, DoomedStays
<1>6. \E d : InPage(x, queue, <<>>, 0, trouble, d) /\ ("failed" \in trouble \/ (d => Doomed'))
  <2> DEFINE d == Doomed
  <2>0. d <=> Doomed OBVIOUS
  <2>1. InPage(page, queue, <<>>, 0, trouble, d) BY <1>1
  <2> HIDE DEF d, Doomed
  <2>2. CASE "failed" \in trouble \/ d \/ queue = <<>>
    <3> HIDE DEF x
    <3>1. InPage(x, queue, <<>>, 0, trouble, d) BY <2>1, <2>2, <1>2, MoveRefresh DEF x
    <3> QED BY <3>1, <2>0, <1>5
  <2>3. CASE ~Now(page)
    <3>1. InPage(page, queue, <<>>, 0, trouble, TRUE) BY <2>1, <2>3, AnyDoom
    <3>2. InPage(x, queue, <<>>, 0, trouble, TRUE) BY <3>1, <1>2, MoveRefresh
    <3>3. ~Now(x) BY <2>3, <1>4 DEF Now
    <3> HIDE DEF x
    <3>4. InPage(x, queue, <<>>, 0, trouble, FALSE) BY <3>2, <3>3, AnyDoom
    <3> QED BY <3>4
  <2> QED BY <2>0, <2>2, <2>3
<1>7. PICK d : InPage(x, queue, <<>>, 0, trouble, d) /\ ("failed" \in trouble \/ (d => Doomed')) BY <1>6
<1>8. Now(page) => x.rev <= server.rev BY <1>2, <1>4
<1>9. Now(page) /\ "failed" \notin trouble =>
           /\ call.phase = "sent" /\ call.sid = page.sid => call.rev <= x.rev
           /\ Served(call) /\ call.sid = page.sid => x.rev < call.doc.rev
  BY <1>4 DEF doc
<1>10. trouble \subseteq Troubles BY InvIs
<1> HIDE DEF x, Doomed
<1> QED BY <1>3, <1>4, <1>7, <1>8, <1>9, <1>10, MatchEnds

\* Its answer arrives, and the document asked for after a conflict.
LEMMA ReceiveMatchKeeps == ASSUME EditInv, ReceiveMatch PROVE EditInv'
<1>1. /\ match.phase = "answered" /\ Turn /\ UNCHANGED <<server, queue, call, left>>
      /\ trouble' = trouble \cup IF match.answer = "ok" THEN {} ELSE {"failed"}
  BY DEF ReceiveMatch
<1>2. match # Idle BY <1>1, IdleIs
<1>3. trouble \subseteq Troubles /\ match \in Call /\ call \in Call BY InvIs
<1>4. trouble \subseteq trouble' /\ trouble' \subseteq Troubles BY <1>1, <1>3 DEF Troubles
<1>5. match.answer \in {"ok", "error", "conflict"} BY <1>1, <1>3 DEF Call, EditInv, Requests
<1>6. CASE match.sid # page.sid
  <2>1. match' = Idle /\ UNCHANGED page BY <1>6 DEF ReceiveMatch
  <2> QED BY <2>1, <1>1, <1>4, MatchOver
<1>7. CASE match.sid = page.sid /\ match.answer = "conflict"
  <2>1. match' = [match EXCEPT !.phase = "asked"] /\ UNCHANGED page BY <1>7 DEF ReceiveMatch
  <2>2. "failed" \in trouble' BY <1>1, <1>7
  <2> QED BY <2>1, <2>2, <1>1, <1>2, <1>4, MatchOver
<1>8. CASE match.sid = page.sid /\ match.answer = "error"
  <2>1. match' = Idle /\ UNCHANGED page BY <1>8 DEF ReceiveMatch
  <2> QED BY <2>1, <1>1, <1>4, MatchOver
<1>9. CASE match.sid = page.sid /\ match.answer = "ok"
  <2>1. match' = Idle /\ page' = refreshEditState(page, match) BY <1>9 DEF ReceiveMatch
  <2>2. trouble' = trouble BY <1>1, <1>9
  <2>3. Known(match) /\ Served(match) BY <1>1, <1>9 DEF Known, Served
  <2>4. ASSUME Now(page), "failed" \notin trouble
        PROVE  /\ queue = <<>> \/ Doomed
               /\ call.phase = "sent" /\ call.sid = page.sid => call.rev <= match.doc.rev
               /\ ~(Served(call) /\ call.sid = page.sid)
    <3>1. Racing BY DEF EditInv
    <3>2. page.rev < match.doc.rev /\ ~(Served(call) /\ call.sid = page.sid) BY <3>1, <2>3, <2>4, <1>9 DEF Racing
    <3>3. match.doc.rev <= server.rev
      <4>1. match.sid = server.sid BY <1>9, <2>4 DEF Now
      <4> QED BY <4>1, <2>3 DEF EditInv, Requests, Told
    <3>4. page.rev \in Nat /\ match.doc.rev \in Nat /\ call.rev \in Nat /\ server.rev \in Nat
      BY <1>3, InvIs DEF Call, Document
    <3>5. call.phase = "sent" /\ call.sid = page.sid => call.rev <= match.doc.rev /\ call.rev # server.rev
      <4>1. call.phase = "sent" /\ call.sid = page.sid => call.rev <= page.rev BY <3>1, <2>4 DEF Racing
      <4> QED BY <4>1, <3>2, <3>3, <3>4
    <3>6. ASSUME queue # <<>> PROVE Doomed
      <4>1. call # Idle BY <3>6, <1>1 DEF Turn
      <4>2. call.phase \in {"sent", "answered", "asked", "read"} BY <4>1, <1>3 DEF EditInv, Requests, Call, Phases
      <4>3. CASE call.sid # page.sid BY <4>1, <4>3 DEF Doomed
      <4>4. CASE call.phase = "sent" /\ call.sid = page.sid BY <4>4, <3>5 DEF Doomed
      <4>5. CASE call.phase = "answered" /\ call.sid = page.sid BY <4>5, <3>2 DEF Doomed, Served
      <4>6. CASE call.phase \in {"asked", "read"} BY <4>6 DEF Doomed
      <4> QED BY <4>2, <4>3, <4>4, <4>5, <4>6
    <3> QED BY <3>2, <3>5, <3>6
  <2> HIDE DEF Doomed
  <2> QED BY <1>1, <1>9, <2>1, <2>2, <2>3, <2>4, MatchTakes
<1> QED BY <1>5, <1>6, <1>7, <1>8, <1>9

LEMMA RefreshMatchKeeps == ASSUME EditInv, RefreshMatch PROVE EditInv'
<1>1. /\ match.phase = "read" /\ match' = Idle /\ page' = refreshEditState(page, match)
      /\ UNCHANGED <<server, queue, call, left, trouble>>
  BY DEF RefreshMatch
<1>2. trouble \subseteq Troubles BY InvIs
<1>3. CASE match.answer = "ok" /\ page.sid = match.sid
  <2>1. Known(match) BY <1>1, <1>3 DEF Known
  <2>2. ~(Now(page) /\ "failed" \notin trouble) BY <1>1, <1>3 DEF EditInv, Racing
  <2> QED BY <1>1, <1>3, <2>1, <2>2, MatchTakes
<1>4. CASE ~(match.answer = "ok" /\ page.sid = match.sid)
  <2>1. page' = page BY <1>1, <1>4 DEF refreshEditState
  <2>2. trouble' \subseteq Troubles /\ trouble \subseteq trouble' BY <1>1, <1>2
  <2> QED BY <1>1, <2>1, <2>2, MatchOver
<1> QED BY <1>3, <1>4

\* A session that was just made.
LEMMA NewServerIs ==
  ASSUME NEW s \in Nat, NEW drags, NEW ok
  PROVE  LET n == NewServer(s)
         IN /\ n \in Session /\ n.sid = s /\ n.rev = 0 /\ n.global = {} /\ n.local = {} /\ n.ever = {}
            /\ n.undo = <<>> /\ n.redo = <<>> /\ History(n, drags, ok)
<1> DEFINE n == NewServer(s)
<1>1. <<>> \in Seq(Entry) BY SoundNone
<1>2. /\ n \in Session /\ n.sid = s /\ n.rev = 0 /\ n.global = {} /\ n.local = {} /\ n.ever = {}
      /\ n.undo = <<>> /\ n.redo = <<>>
  BY <1>1 DEF NewServer, Session
<1> HIDE DEF n
<1>3. History(n, drags, ok) BY <1>2, SoundNone DEF History
<1> QED BY <1>2, <1>3 DEF n

\* Another photo, in the backend and on the page.
LEMMA ActivateSessionKeeps == ASSUME EditInv, activate_session PROVE EditInv'
<1>1. Spend("other") /\ server' = NewServer(server.sid + 1) /\ UNCHANGED <<page, queue, call, match, trouble>>
  BY DEF activate_session
<1>2. /\ left \in Left /\ page.sid \in Nat /\ server.sid \in Nat /\ page.sid <= server.sid
      /\ call \in Call /\ match \in Call /\ trouble \subseteq Troubles /\ queue \in Seq(Commands)
  BY InvIs
<1>3. left' \in Left /\ left'.slide = left.slide /\ left'.other = left.other - 1 BY <1>1, <1>2, SpendIs
<1>4. left'.other < Others
  <2>1. left.other \in 0..Others BY <1>2 DEF Left
  <2> QED BY <2>1, <1>3, Bounds
<1> DEFINE s == server.sid + 1
           ok == "failed" \notin trouble
<1>5. s \in Nat BY <1>2
<1>6. /\ server' \in Session /\ server'.sid = s /\ server'.rev = 0 /\ server'.global = {} /\ server'.local = {}
      /\ server'.ever = {} /\ server'.undo = <<>> /\ server'.redo = <<>> /\ History(server', page.drags, ok)
  BY <1>1, <1>5, NewServerIs
<1>7. server'.sid \in Nat /\ server.sid <= server'.sid /\ page.sid # server'.sid /\ page.sid < server'.sid BY <1>2, <1>6
<1>8. InPageNow'
  <2>1. InPageNow BY DEF EditInv, InPageNow
  <2> HIDE DEF Doomed, InPageNow, s
  <2> QED BY <2>1, <1>1, <1>2, <1>7, AdvanceMoves
<1>9. ~Now(page)' BY <1>1, <1>7 DEF Now
<1>10. Fresh' BY <1>6 DEF Fresh
<1>11. Revisions' /\ Racing' BY <1>9 DEF Revisions, Racing
<1>12. Counted'
  <2>1. Len(page.drags) = Slides - left.slide BY DEF EditInv, Counted
  <2> QED BY <2>1, <1>1, <1>3, <1>6 DEF Counted
<1>13. History(server, page.drags, "failed" \notin trouble)'
  <2>1. ok <=> "failed" \notin trouble' BY <1>1
  <2> HIDE DEF ok, s
  <2> QED BY <2>1, <1>1, <1>6 DEF History, Sound, EntryOK, OfDrag, Apart
<1>14. Shapes' BY <1>1, <1>2, <1>3, <1>6 DEF Shapes
<1>15. Requests'
  <2>1. Requests BY DEF EditInv
  <2>2. call = Idle \/ (call.sid \in Nat /\ call.sid <= page.sid)
    <3> SUFFICES ASSUME call # Idle PROVE call.sid \in Nat /\ call.sid <= page.sid OBVIOUS
    <3>1. queue # <<>> /\ call.sid = Head(queue).sid BY <2>1 DEF Requests
    <3>2. 1 \in DOMAIN queue /\ queue[1] = Head(queue) BY <3>1, <1>2, PopIs
    <3>3. queue[1].sid <= page.sid BY <3>2 DEF EditInv, InPage, Sessions
    <3> QED BY <3>1, <3>2, <3>3, <1>2 DEF Call
  <2>3. match = Idle \/ (match.sid \in Nat /\ match.sid <= page.sid) BY <2>1, <1>2 DEF Requests, Call
  <2>4. ~Known(call) \/ call.sid # server'.sid
    <3>1. CASE call = Idle BY <3>1, IdleIs
    <3>2. CASE call.sid \in Nat /\ call.sid <= page.sid BY <3>2, <1>2, <1>7
    <3> QED BY <2>2, <3>1, <3>2
  <2>5. ~Known(match) \/ match.sid # server'.sid
    <3>1. CASE match = Idle BY <3>1, IdleIs
    <3>2. CASE match.sid \in Nat /\ match.sid <= page.sid BY <3>2, <1>2, <1>7
    <3> QED BY <2>3, <3>1, <3>2
  <2>6. Told(call)' /\ Told(match)' BY <1>1, <2>4, <2>5 DEF Told, Known
  <2>7. ~(Served(call) /\ call.sid = server.sid)' BY <1>1, <2>4 DEF Served, Known
  <2>8. (match = Idle \/ (match.phase # "idle" /\ match.sid <= page.sid /\ left.other < Others))'
    BY <2>1, <1>1, <1>4 DEF Requests
  <2>9. (Known(call) => call.doc.global \subseteq Made(page))' /\ (Known(match) => match.doc.global \subseteq Made(page))'
    BY <2>1, <1>1 DEF Requests, Known, Made
  <2>10. (call = Idle \/ (call.phase # "idle" /\ queue # <<>> /\ call.sid = Head(queue).sid))' BY <2>1, <1>1 DEF Requests
  <2>11. (call.phase = "answered" => call.answer # "none")' /\ (match.phase = "answered" => match.answer # "none")'
    BY <2>1, <1>1 DEF Requests
  <2> QED BY <2>6, <2>7, <2>8, <2>9, <2>10, <2>11 DEF Requests
<1> QED BY <1>8, <1>10, <1>11, <1>12, <1>13, <1>14, <1>15 DEF EditInv, InPageNow

LEMMA ActivateDesktopSessionKeeps == ASSUME EditInv, activateDesktopSession PROVE EditInv'
<1> DEFINE x == Opened(page, server.sid)
           s == trouble'
<1>1. /\ server.sid # page.sid /\ page' = x /\ UNCHANGED <<server, queue, call, match, left>>
      /\ trouble' = IF \E i \in DOMAIN queue : Pushes(queue[i], {"local"}) THEN {"inherited"} ELSE {}
  BY DEF activateDesktopSession, Opened
<1>2. /\ left \in Left /\ page.sid \in Nat /\ server.sid \in Nat /\ page.sid <= server.sid /\ page \in Page
      /\ call \in Call /\ match \in Call /\ server \in Session /\ server.rev \in Nat /\ queue \in Seq(Commands)
      /\ InPage(page, queue, <<>>, 0, trouble, Doomed)
  BY InvIs
<1>3. x \in Page /\ x.sid = server.sid /\ x.rev = 0 /\ x.drags = page.drags BY <1>2, OpenedIs
<1> HIDE DEF x
<1>4. ~Now(page) BY <1>1 DEF Now
<1>5. Fresh BY DEF EditInv
<1>6. s \subseteq Troubles BY <1>1 DEF Troubles
<1>7. "inherited" \notin s => \A i \in DOMAIN queue : ~Pushes(queue[i], {"local"}) BY <1>1
<1> HIDE DEF s
<1>8. InPage(x, queue, <<>>, 0, s, FALSE)
  <2>1. page.sid # server.sid BY <1>1
  <2> HIDE DEF Doomed
  <2> QED BY <2>1, <1>2, <1>4, <1>5, <1>7, MoveOpen DEF x
<1>9. InPageNow'
  <2>1. trouble' = s BY DEF s
  <2> HIDE DEF Doomed
  <2> QED BY <2>1, <1>1, <1>8, Became
<1>10. Now(page)' BY <1>1, <1>3 DEF Now
<1>11. Fresh' BY <1>10 DEF Fresh
<1>12. Revisions' BY <1>1, <1>2, <1>3 DEF Revisions
<1>13. Made(page)' = Made(page) BY <1>1, <1>3 DEF Made
<1>14. Counted' BY <1>1, <1>3, <1>13 DEF EditInv, Counted
<1>15. History(server, page.drags, "failed" \notin trouble)'
  <2>1. server.undo = <<>> /\ server.redo = <<>> /\ server.global = {} BY <1>4, <1>5 DEF Fresh
  <2>2. server'.undo = <<>> /\ server'.redo = <<>> /\ server'.global = {} BY <2>1, <1>1
  <2>3. DOMAIN <<>> = {} OBVIOUS
  <2> QED BY <2>2, <2>3 DEF History, Sound
<1>16. Shapes' BY <1>1, <1>2, <1>6 DEF Shapes, s
<1>17. Requests /\ page'.sid = server.sid BY <1>1, <1>3 DEF EditInv
<1>18. call = Idle \/ (call.sid # page'.sid /\ call.sid # server.sid)
  <2> SUFFICES ASSUME call # Idle PROVE call.sid # server.sid BY <1>17
  <2>1. queue # <<>> /\ call.sid = Head(queue).sid BY <1>17 DEF Requests
  <2>2. 1 \in DOMAIN queue /\ queue[1] = Head(queue) BY <2>1, <1>2, PopIs
  <2>3. queue[1].sid <= page.sid BY <2>2 DEF EditInv, InPage, Sessions
  <2>4. call.sid \in Nat BY <1>2 DEF Call
  <2> QED BY <2>1, <2>2, <2>3, <2>4, <1>1, <1>2
<1>19. match = Idle \/ (match.sid # page'.sid /\ match.sid # server.sid /\ match.sid <= server.sid)
  <2> SUFFICES ASSUME match # Idle PROVE match.sid # server.sid /\ match.sid <= server.sid BY <1>17
  <2>1. match.sid <= page.sid BY <1>17 DEF Requests
  <2>2. match.sid \in Nat BY <1>2 DEF Call
  <2> QED BY <2>1, <2>2, <1>1, <1>2
<1>20. Requests'
  <2>1. (match = Idle \/ (match.phase # "idle" /\ match.sid <= page.sid /\ left.other < Others))'
    BY <1>1, <1>17, <1>19 DEF Requests
  <2>2. (call = Idle \/ (call.phase # "idle" /\ queue # <<>> /\ call.sid = Head(queue).sid))' BY <1>1, <1>17 DEF Requests
  <2>3. Told(call)' /\ Told(match)' BY <1>1, <1>17 DEF Requests, Told, Known
  <2>4. (Known(call) => call.doc.global \subseteq Made(page))' /\ (Known(match) => match.doc.global \subseteq Made(page))'
    BY <1>1, <1>13, <1>17 DEF Requests, Known
  <2>5. (call.phase = "answered" => call.answer # "none")' /\ (match.phase = "answered" => match.answer # "none")'
    BY <1>1, <1>17 DEF Requests
  <2>6. (Served(call) /\ call.sid = server.sid =>
           /\ Head(queue).type = "global" => Head(queue).value \subseteq server.ever
           /\ Head(queue).type = "local" => call.doc.local = Head(queue).value)'
    <3>1. Served(call)' <=> Served(call) BY <1>1 DEF Served
    <3> QED BY <3>1, <1>1, <1>17 DEF Requests
  <2> QED BY <2>1, <2>2, <2>3, <2>4, <2>5, <2>6 DEF Requests
<1>21. Racing'
  <2>1. call.sid # page'.sid \/ (call.phase = "idle" /\ ~Served(call)) BY <1>18, IdleIs
  <2>2. match.sid # page'.sid \/ (match.phase = "idle" /\ ~Served(match)) BY <1>19, IdleIs
  <2>3. (Served(call)' <=> Served(call)) /\ (Served(match)' <=> Served(match)) BY <1>1 DEF Served
  <2> QED BY <2>1, <2>2, <2>3, <1>1 DEF Racing
<1> QED BY <1>9, <1>11, <1>12, <1>14, <1>15, <1>16, <1>20, <1>21 DEF EditInv, InPageNow

\* Nothing happens.
LEMMA StutterKeeps == ASSUME EditInv, UNCHANGED vars PROVE EditInv'
<1>1. UNCHANGED <<server, page, queue, call, match, left, trouble>> BY DEF vars
<1>2. call' \in Call /\ match' \in Call /\ left' \in Left BY <1>1, InvIs
<1>3. Requests'
  <2>1. Requests BY DEF EditInv
  <2> QED BY <2>1, <1>1 DEF Requests, Told, Known, Served, Made
<1>4. Racing' BY <1>1 DEF EditInv, Racing, Now, Served
<1>5. Doomed' <=> Doomed BY <1>1, DoomedStays
<1> HIDE DEF Doomed
<1> QED BY <1>1, <1>2, <1>3, <1>4, <1>5, AskKeeps

-----------------------------------------------------------------------------
(* The theorems. *)

\* A page that was just made.
LEMMA NewPageIs ==
  LET p == NewPage(1)
  IN /\ p \in Page /\ p.sid = 1 /\ p.rev = 0 /\ p.adj = {} /\ p.locals = {} /\ p.dirty = FALSE /\ p.gen = 0
     /\ p.held = FALSE /\ p.group = 0 /\ p.seq = 0 /\ p.depth = 0 /\ p.drags = <<>>
BY DEF NewPage, Page, NoGroup

\* The initial state satisfies the invariant, and every step keeps it.
LEMMA InitKeeps == ASSUME Init PROVE EditInv
<1>1. /\ server = NewServer(1) /\ page = NewPage(1) /\ queue = <<>> /\ call = Idle /\ match = Idle /\ trouble = {}
      /\ left = [slide |-> Slides, local |-> Locals, history |-> Histories, other |-> Others, drag |-> Drags]
  BY DEF Init
<1>2. /\ page \in Page /\ page.sid = 1 /\ page.rev = 0 /\ page.adj = {} /\ page.locals = {} /\ page.dirty = FALSE
      /\ page.gen = 0 /\ page.held = FALSE /\ page.group = 0 /\ page.seq = 0 /\ page.depth = 0 /\ page.drags = <<>>
  BY <1>1, NewPageIs
<1>3. /\ server \in Session /\ server.sid = 1 /\ server.rev = 0 /\ server.global = {} /\ server.local = {}
      /\ server.ever = {} /\ server.undo = <<>> /\ server.redo = <<>>
      /\ History(server, page.drags, "failed" \notin trouble)
  BY <1>1, NewServerIs
<1>4. left \in Left /\ left.slide = Slides BY <1>1, Bounds DEF Left
<1>5. DOMAIN queue = {} /\ Hand(<<>>, 0) = {} /\ queue \in Seq(Commands) /\ <<>> \in Seq(Ends \cup Waiting)
  BY <1>1, HandOfNone
<1>6. ~Doomed BY <1>1, IdleIs DEF Doomed
<1>7. Pending(page, queue) = {} BY <1>5 DEF Pending
<1>8. Spots(page, queue, <<>>, 0) = {} /\ Number(page, queue, <<>>, 0) = 0
  <2>1. \A i, k : ~Spot(page, queue, <<>>, 0, i, k) BY <1>5 DEF Spot
  <2>2. Spots(page, queue, <<>>, 0) = {} BY <2>1 DEF Spots
  <2> QED BY <2>2, FS_EmptySet DEF Number
<1>9. InPage(page, queue, <<>>, 0, trouble, Doomed)
  <2>1. Shaped(page, queue, <<>>) BY <1>2, <1>5 DEF Shaped
  <2>2. Sessions(page, queue, <<>>, 0) BY <1>2, <1>3, <1>5 DEF Sessions
  <2>3. Generations(page, queue) BY <1>7 DEF Generations
  <2>4. Showing(page, queue) BY <1>2, <1>3 DEF Showing
  <2>5. Undos(page, queue, <<>>, 0, trouble) BY <1>5 DEF Undos
  <2>6. Unsaved(page, queue, trouble) BY <1>2 DEF Unsaved
  <2>7. Gestures(page, queue, <<>>, 0) BY <1>2, <1>5 DEF Gestures
  <2>8. Dragged(page, queue, <<>>, 0, trouble) BY <1>2, <1>7 DEF Dragged
  <2>9. Depths(page, queue, <<>>, 0, trouble) BY <1>2, <1>5, <1>8 DEF Depths, Mine, MineHand
  <2>10. Alone(page, queue, <<>>, 0, trouble) BY <1>5 DEF Alone, Later
  <2>11. Strokes(page, queue, <<>>, 0, trouble, Doomed)
    <3> HIDE DEF Doomed
    <3> QED BY <1>2, <1>3 DEF Strokes
  <2> QED BY <2>1, <2>2, <2>3, <2>4, <2>5, <2>6, <2>7, <2>8, <2>9, <2>10, <2>11 DEF InPage
<1>10. Shapes BY <1>1, <1>3, <1>4, IdleIs DEF Shapes
<1>11. Requests BY <1>1, IdleIs DEF Requests
<1>12. Fresh BY <1>3 DEF Fresh
<1>13. Revisions BY <1>2, <1>3 DEF Revisions
<1>14. Counted
  <2>1. Len(page.drags) = 0 BY <1>2
  <2> QED BY <2>1, <1>3, <1>4, Bounds DEF Counted
<1>15. Racing BY <1>1, IdleIs DEF Racing
<1> QED BY <1>3, <1>9, <1>10, <1>11, <1>12, <1>13, <1>14, <1>15 DEF EditInv

LEMMA NextKeeps == ASSUME EditInv, [Next]_vars PROVE EditInv'
<1>1. CASE Press BY <1>1, PressKeeps
<1>2. CASE Slide BY <1>2, SlideKeeps
<1>3. CASE Release BY <1>3, ReleaseKeeps
<1>4. CASE SettleSave BY <1>4, SettleSaveKeeps
<1>5. CASE CommitLocal BY <1>5, CommitLocalKeeps
<1>6. CASE PressHistory BY <1>6, PressHistoryKeeps
<1>7. CASE Send BY <1>7, SendKeeps
<1>8. CASE Serve BY <1>8, ServeKeeps
<1>9. CASE Lose BY <1>9, LoseKeeps
<1>10. CASE Receive BY <1>10, ReceiveKeeps
<1>11. CASE AnswerState BY <1>11, AnswerStateKeeps
<1>12. CASE Refresh BY <1>12, RefreshKeeps
<1>13. CASE setSdrMatch BY <1>13, SetSdrMatchKeeps
<1>14. CASE ServeMatch BY <1>14, ServeMatchKeeps
<1>15. CASE ReceiveMatch BY <1>15, ReceiveMatchKeeps
<1>16. CASE RefreshMatch BY <1>16, RefreshMatchKeeps
<1>17. CASE activate_session BY <1>17, ActivateSessionKeeps
<1>18. CASE activateDesktopSession BY <1>18, ActivateDesktopSessionKeeps
<1>19. CASE UNCHANGED vars BY <1>19, StutterKeeps
<1> QED BY <1>1, <1>2, <1>3, <1>4, <1>5, <1>6, <1>7, <1>8, <1>9, <1>10, <1>11, <1>12, <1>13, <1>14, <1>15,
           <1>16, <1>17, <1>18, <1>19 DEF Next

\* The invariant holds: whatever is edited, pressed, lost or opened meanwhile,
\* the queue, the requests and the session agree with the page as EditInv says.
THEOREM EditInvariant == Spec => []EditInv
<1>1. Init => EditInv BY InitKeeps
<1>2. EditInv /\ [Next]_vars => EditInv' BY NextKeeps
<1> QED BY <1>1, <1>2, PTL DEF Spec

\* The shapes are a part of the invariant.
LEMMA TypesFollow == ASSUME EditInv PROVE TypeOK
<1>1. server \in Session /\ page \in Page /\ call \in Call /\ match \in Call /\ trouble \subseteq Troubles
      /\ queue \in Seq(Commands)
  BY InvIs
<1>2. call # Idle => queue # <<>> BY DEF EditInv, Requests
<1>3. \A i \in DOMAIN queue : queue[i].type \in {"global", "local", "undo", "redo"}
  <2> SUFFICES ASSUME NEW i \in DOMAIN queue PROVE queue[i].type \in {"global", "local", "undo", "redo"} OBVIOUS
  <2>1. queue[i] \in Commands BY <1>1
  <2> QED BY <2>1, CommandIs
<1> QED BY <1>1, <1>2, <1>3 DEF TypeOK, Session, Page

\* The state keeps its shape, and a request is of a command of the queue.
THEOREM EditsTypeCorrect == Spec => []TypeOK
<1>1. EditInv => TypeOK BY TypesFollow
<1> QED BY <1>1, EditInvariant, PTL

\* With nothing queued the head cannot fail.
LEMMA RestFollows == ASSUME EditInv PROVE ShowsSession
<1> SUFFICES ASSUME AtRest
             PROVE  page.adj = server.global /\ (trouble \subseteq {"inherited"} => page.locals = server.local)
  BY DEF ShowsSession
<1>1. queue = <<>> /\ match = Idle /\ ~page.dirty /\ Now(page) /\ page.rev = server.rev BY DEF AtRest, Now
<1>2. InPage(page, <<>>, <<>>, 0, trouble, Doomed) BY <1>1, InvIs
<1>3. Spots(page, <<>>, <<>>, 0) = {} /\ Pending(page, <<>>) = {}
  <2> HIDE DEF Doomed
  <2> QED BY <1>2, NothingQueued
<1>4. page.adj = server.global BY <1>1, <1>2, <1>3 DEF InPage, Showing
<1>5. call = Idle BY <1>1 DEF EditInv, Requests
<1>6. ~Doomed BY <1>5, IdleIs DEF Doomed
<1>7. ASSUME trouble \subseteq {"inherited"} PROVE page.locals = server.local
  <2>1. "failed" \notin trouble /\ "overtaken" \notin trouble BY <1>7
  <2> HIDE DEF Doomed
  <2> QED BY <2>1, <1>1, <1>2, <1>3, <1>6 DEF InPage, Strokes
<1> QED BY <1>4, <1>7

\* At rest the page shows the session's document (edit-commands.js:111-131),
\* whatever was moved, committed, undone, matched or opened before.
THEOREM ShowsSessionHolds == Spec => []ShowsSession
<1>1. EditInv => ShowsSession BY RestFollows
<1> QED BY <1>1, EditInvariant, PTL

\* Both steps would be of the gesture, and next to each other.
LEMMA DragsFollow == ASSUME EditInv PROVE DragIsOneStep
<1> SUFFICES ASSUME "failed" \notin trouble, NEW i \in 2..Len(server.undo),
                    NEW g \in Brought(i) \cap Brought(i - 1), g # NoGroup
             PROVE  FALSE
  BY DEF DragIsOneStep
<1> DEFINE h == server.undo
           ok == "failed" \notin trouble
           j == i - 1
<1>1. h \in Seq(Entry) BY InvIs DEF Session
<1>2. Sound(h, server.ever, page.drags, ok) BY DEF EditInv, History
<1>3. i \in DOMAIN h /\ j \in DOMAIN h /\ j + 1 = i BY <1>1
<1>4. PICK a \in h[i].new \cap DOMAIN page.drags : g = page.drags[a] BY DEF Brought
<1>5. PICK b \in h[j].new \cap DOMAIN page.drags : g = page.drags[b] BY DEF Brought
<1> HIDE DEF h, j
<1>6. EntryOK(h[i], server.ever) /\ OfDrag(h[i], page.drags) /\ EntryOK(h[j], server.ever) /\ OfDrag(h[j], page.drags)
  BY <1>2, <1>3 DEF Sound
<1>7. h[i].group = g /\ h[j].group = g BY <1>4, <1>5, <1>6 DEF OfDrag
<1>8. h[i].type = "global" /\ h[j].type = "global"
  <2>1. h[i] \in Entry /\ h[j] \in Entry BY <1>1, <1>3
  <2>2. h[i].type # "local" /\ h[j].type # "local" BY <1>4, <1>5, <1>6 DEF EntryOK
  <2> QED BY <2>1, <2>2 DEF Entry
<1>9. Apart(h[i], h[j])
  <2>1. j + 1 \in DOMAIN h BY <1>3
  <2>2. Apart(h[j + 1], h[j]) BY <2>1, <1>2, <1>3 DEF Sound
  <2> QED BY <2>2, <1>3
<1> QED BY <1>7, <1>8, <1>9 DEF Apart

\* One drag is one undo step (edit-commands.js:17-26): two steps in a row never
\* both bring in values of one gesture, whatever saves and answers it crosses.
THEOREM DragIsOneStepHolds == Spec => []DragIsOneStep
<1>1. EditInv => DragIsOneStep BY DragsFollow
<1> QED BY <1>1, EditInvariant, PTL

\* A command that is finished takes nothing more off the page.
LEMMA CompleteShows ==
  ASSUME queue # <<>>, NEW p, NEW applied \in BOOLEAN, NEW d, NEW t, InPage(p, queue, <<>>, 0, t, d), Complete(p, applied),
         applied => Ready(p, Head(queue), t, d) /\ Head(queue).sid = p.sid, ~applied => "failed" \in t
  PROVE  page'.adj = p.adj /\ page'.locals = p.locals
<1> DEFINE state == Finished(p, queue, applied)
<1>1. page' = state.page BY DEF Complete, Become
<1>2. FinishTo(p, t, state) BY MoveFinished
<1> HIDE DEF state
<1> QED BY <1>1, <1>2 DEF FinishTo, SamePage

\* What an answer of the queue leaves on the page: all of it, or the document of
\* the answer but for newer sliders and strokes.
LEMMA ReceiveShows ==
  ASSUME EditInv, Receive
  PROVE  \/ page'.adj = page.adj /\ page'.locals = page.locals
         \/ /\ Served(call) /\ call.sid = page.sid /\ queue # <<>> /\ Head(queue).sid = page.sid
            /\ page'.adj = Taken(page, Head(queue), call.doc).adj
            /\ page'.locals = Taken(page, Head(queue), call.doc).locals
<1> DEFINE c == Head(queue)
           t == trouble \cup {"failed"}
<1>1. call.phase = "answered" BY DEF Receive
<1>2. queue # <<>> /\ call.sid = c.sid /\ call # Idle /\ call.answer # "none" BY <1>1, IdleIs DEF EditInv, Requests
<1>3. page \in Page /\ call \in Call /\ InPage(page, queue, <<>>, 0, trouble, Doomed) BY InvIs
<1>4. call.answer \in {"ok", "error", "conflict"} BY <1>2, <1>3 DEF Call
<1>5. InPage(page, queue, <<>>, 0, t, Doomed)
  <2> HIDE DEF Doomed
  <2> QED BY <1>3, Weaker
<1>6. CASE c.sid # page.sid \/ (c.sid = page.sid /\ call.answer = "error")
  <2>1. Complete(page, FALSE) BY <1>6 DEF Receive
  <2> HIDE DEF Doomed
  <2> QED BY <2>1, <1>2, <1>5, CompleteShows
<1>7. CASE c.sid = page.sid /\ call.answer = "conflict"
  <2>1. UNCHANGED page BY <1>7 DEF Receive
  <2> QED BY <2>1
<1>8. CASE c.sid = page.sid /\ call.answer = "ok"
  <2> DEFINE doc == call.doc
             p == Taken(page, c, doc)
  <2>1. Complete(p, TRUE) BY <1>8 DEF Receive
  <2>2. Served(call) /\ Known(call) /\ call.sid = page.sid BY <1>1, <1>2, <1>8 DEF Served, Known
  <2>3. ToldOf(page, doc) /\ doc \in Document BY <2>2, ToldIs
  <2>4. ~Doomed BY <1>1, <1>8, <2>2 DEF Doomed
  <2>5. InPage(page, queue, <<>>, 0, trouble, FALSE)
    <3> DEFINE d == Doomed
    <3>1. InPage(page, queue, <<>>, 0, trouble, d) /\ ~d BY <2>4, <1>3
    <3> HIDE DEF d, Doomed
    <3> QED BY <3>1, Weaker
  <2>6. Now(page) => /\ c.type = "global" => c.value \subseteq server.ever
                     /\ c.type = "local" => c.value = doc.local
    <3>1. Now(page) => call.sid = server.sid BY <2>2 DEF Now
    <3> QED BY <3>1, <2>2 DEF EditInv, Requests
  <2> HIDE DEF doc
  <2>7. InPage(p, queue, <<>>, 0, trouble, FALSE) /\ Ready(p, c, trouble, FALSE)
    BY <1>2, <1>8, <2>3, <2>5, <2>6, MoveTake
  <2>8. p.sid = page.sid BY <1>3, <2>3, TakenIs
  <2> HIDE DEF p
  <2>9. page'.adj = p.adj /\ page'.locals = p.locals BY <1>2, <1>8, <2>1, <2>7, <2>8, CompleteShows
  <2> QED BY <1>2, <1>8, <2>2, <2>9 DEF p, doc
<1> QED BY <1>4, <1>6, <1>7, <1>8

\* The save that is answered is the newest, and has every value; or a newer value
\* keeps the page's.
LEMMA SavesKeep ==
  ASSUME EditInv, Receive, Head(queue).type = "global", page.sid = server.sid
  PROVE  page.adj \ server.ever \subseteq page'.adj
<1> DEFINE c == Head(queue)
<1>1. CASE page'.adj = page.adj BY <1>1
<1>2. CASE /\ Served(call) /\ call.sid = page.sid /\ queue # <<>> /\ c.sid = page.sid
           /\ page'.adj = Taken(page, c, call.doc).adj
  <2>1. page \in Page /\ queue \in Seq(Commands) BY InvIs
  <2>2. call.doc \in Document BY InvIs DEF Call
  <2>3. CASE c.gen # page.gen
    <3>1. page'.adj = page.adj BY <1>2, <2>1, <2>2, <2>3, TakenIs
    <3> QED BY <3>1
  <2>4. CASE c.gen = page.gen
    <3>1. 1 \in DOMAIN queue /\ queue[1] = c BY <1>2, <2>1, PopIs
    <3>2. 1 \in Pending(page, queue) BY <1>2, <3>1 DEF Pending
    <3>3. Now(page) BY DEF Now
    <3>4. page.adj \subseteq queue[1].value \cup server.ever
      BY <2>4, <3>1, <3>2, <3>3, InvIs DEF InPage, Generations
    <3>5. c.value \subseteq server.ever BY <1>2 DEF EditInv, Requests
    <3> QED BY <3>1, <3>4, <3>5
  <2> QED BY <2>3, <2>4
<1> QED BY <1>1, <1>2, ReceiveShows

\* The commit that is answered is still counted.
LEMMA CommitsKeep ==
  ASSUME EditInv, Receive, Head(queue).type = "local", "inherited" \notin trouble
  PROVE  page.locals \subseteq page'.locals
<1> DEFINE c == Head(queue)
<1>1. CASE page'.locals = page.locals BY <1>1
<1>2. CASE /\ queue # <<>> /\ c.sid = page.sid
           /\ page'.locals = Taken(page, c, call.doc).locals
  <2>1. page \in Page /\ queue \in Seq(Commands) BY InvIs
  <2>2. call.doc \in Document BY InvIs DEF Call
  <2>3. 1 \in DOMAIN queue /\ queue[1] = c BY <1>2, <2>1, PopIs
  <2>4. <<1, 0>> \in Spots(page, queue, <<>>, 0)
    <3>1. Spot(page, queue, <<>>, 0, 1, 0) BY <1>2, <2>3 DEF Spot, LocalOf
    <3> QED BY <3>1, SpotIn
  <2>5. IsFiniteSet(Spots(page, queue, <<>>, 0))
    <3>1. <<>> \in Seq(Ends \cup Waiting) OBVIOUS
    <3> QED BY <2>1, <3>1, SpotsFinite
  <2>6. Number(page, queue, <<>>, 0) \in Nat /\ Number(page, queue, <<>>, 0) # 0
    BY <2>4, <2>5, FS_EmptySet, FS_CardinalityType DEF Number
  <2>7. page.depth = Number(page, queue, <<>>, 0) BY InvIs DEF InPage, Depths
  <2>8. page.depth > 0 BY <2>6, <2>7
  <2>9. page'.locals = page.locals BY <1>2, <2>1, <2>2, <2>8, TakenIs
  <2> QED BY <2>9
<1> QED BY <1>1, <1>2, ReceiveShows

\* No answer takes off the page what is saved nowhere (edit-commands.js:90-94),
\* or the strokes newer than the commit it answers (edit-commands.js:83-89).
THEOREM AnswersKeepEditsHolds == Spec => AnswersKeepEdits
<1>1. EditInv /\ [Next]_vars
        => [Receive /\ Head(queue).type = "global" /\ page.sid = server.sid
              => page.adj \ server.ever \subseteq page'.adj]_vars
  BY SavesKeep
<1>2. EditInv /\ [Next]_vars
        => [Receive /\ Head(queue).type = "local" /\ "inherited" \notin trouble
              => page.locals \subseteq page'.locals]_vars
  BY CommitsKeep
<1> QED BY <1>1, <1>2, EditInvariant, PTL DEF Spec, AnswersKeepEdits, SaveKeepsUnsaved, CommitKeepsStrokes

\* An undo at the head has no save before it.
LEMMA UndosFollow ==
  ASSUME EditInv, Serve, Head(queue).type = "undo", call'.answer = "ok", "failed" \notin trouble
  PROVE  Head(queue).seen \subseteq server.ever
<1> DEFINE c == Head(queue)
<1>1. call.phase = "sent" BY DEF Serve
<1>2. queue # <<>> /\ call.sid = c.sid BY <1>1, IdleIs DEF EditInv, Requests
<1>3. call \in Call /\ queue \in Seq(Commands) /\ page.sid \in Nat /\ server.sid \in Nat /\ page.sid <= server.sid BY InvIs
<1>4. call.sid = server.sid
  <2> SUFFICES ASSUME call.sid # server.sid PROVE FALSE OBVIOUS
  <2>1. call' = [call EXCEPT !.phase = "answered", !.answer = "error"] BY DEF Serve
  <2> QED BY <2>1, <1>3 DEF Call
<1>5. 1 \in DOMAIN queue /\ queue[1] = c BY <1>2, <1>3, PopIs
<1>6. Now(page) /\ c.sid = page.sid
  <2>1. c.sid <= page.sid BY <1>5, InvIs DEF InPage, Sessions
  <2> QED BY <2>1, <1>2, <1>3, <1>4 DEF Now
<1>7. c.seen \subseteq server.ever \cup Values(page, queue, 1) BY <1>5, <1>6, InvIs DEF InPage, Undos, UndoOf
<1>8. ASSUME NEW x \in Values(page, queue, 1) PROVE FALSE
  <2>1. PICK i \in Pending(page, queue) : i <= 1 BY <1>3, <1>8, ValuesAre
  <2>2. i \in DOMAIN queue /\ i \in Nat /\ i > 0 /\ queue[i].type = "global" BY <2>1, <1>2, <1>3, PopIs DEF Pending
  <2>3. i = 1 BY <2>1, <2>2
  <2> QED BY <2>2, <2>3, <1>5
<1> QED BY <1>7, <1>8

\* Undo comes after the edits it was pressed after (edit-commands.js:65-69),
\* deferred behind as many saves and other commands as there are.
THEOREM UndoComesAfterHolds == Spec => UndoComesAfter
<1>1. EditInv /\ [Next]_vars
        => [Serve /\ Head(queue).type = "undo" /\ call'.answer = "ok" /\ "failed" \notin trouble
              => Head(queue).seen \subseteq server.ever]_vars
  BY UndosFollow
<1> QED BY <1>1, EditInvariant, PTL DEF Spec, UndoComesAfter
=============================================================================
