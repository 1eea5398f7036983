---------------------------- MODULE MCSourceMips ----------------------------
\* The instances of SourceMips that TLC checks: each scenario says what is
\* asked and what else may happen.
EXTENDS SourceMips

CONSTANTS t1, t2, t3, t4, big, small, other, old

MCSize == (big :> 2) @@ (small :> 1) @@ (other :> 1) @@ (old :> 1)
MCIdentity == (big :> "a") @@ (small :> "a") @@ (other :> "b") @@ (old :> "a")

Ask(level) == [kind |-> "level", level |-> level, persist |-> TRUE]
Open(level) == [kind |-> "level", level |-> level, persist |-> FALSE]
Save(level) == [kind |-> "persist", level |-> level, persist |-> TRUE]
Stored(level) == [level |-> level, whole |-> TRUE, damaged |-> FALSE]
Cut(level) == [level |-> level, whole |-> TRUE, damaged |-> TRUE]

Quiet(jobs) == [jobs |-> jobs, disk |-> <<>>, temps |-> {}, stale |-> 0, discards |-> 0,
                damages |-> 0, faults |-> 0, crashes |-> 0]
Two(a, b) == Quiet((t1 :> a) @@ (t2 :> b))
Three(a, b, c) == Quiet((t1 :> a) @@ (t2 :> b) @@ (t3 :> c))

\* The same level for two sessions, and another one.
Shared == [Three(Ask(big), Ask(big), Ask(small))
             EXCEPT !.disk = <<Stored(other), Stored(small)>>, !.stale = 1, !.damages = 1]
Failures == [Three(Ask(big), Ask(big), Open(big))
             EXCEPT !.disk = <<Cut(big)>>, !.faults = 1, !.stale = 1]
\* Saved after the answer, while levels come and go.
Deferred == [Three(Open(small), Save(small), Save(small))
             EXCEPT !.discards = 1, !.stale = 1, !.faults = 1, !.disk = <<Stored(big)>>]
Reopened == [Three(Open(small), Save(small), Open(small)) EXCEPT !.discards = 1, !.temps = {t4}]
Crowded == [Quiet((t1 :> Open(small)) @@ (t2 :> Open(big)) @@ (t3 :> Open(other)) @@ (t4 :> Save(small)))
             EXCEPT !.discards = 1]
\* The backend dies and starts again.
Restarted == [Three(Ask(small), Ask(big), Ask(other))
             EXCEPT !.crashes = 1, !.disk = <<Stored(old), Stored(small)>>, !.temps = {t4}]

All == {Shared, Failures, Deferred, Reopened, Crowded, Restarted}
OnlySuperseded == {[Two(Ask(big), Open(small)) EXCEPT !.stale = 1]}
OnlySwept == {Two(Ask(big), Ask(small))}
OnlyPruned == {[Two(Ask(small), Ask(other)) EXCEPT !.disk = <<Stored(big)>>]}
=============================================================================
