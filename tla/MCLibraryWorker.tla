-------------------------- MODULE MCLibraryWorker --------------------------
\* The instances of LibraryWorker that TLC checks: each scenario says which
\* kinds of work are asked for and what else may happen.
EXTENDS LibraryWorker

Two == [asks |-> <<"main", "picture">>, cancels |-> 0, leaves |-> 0, faults |-> 0,
        pauses |-> 0, sources |-> 0, closes |-> 0]

\* Requests cancelled and dropped while helpers die, up to the restart limit.
Dropped == [Two EXCEPT !.asks = <<"main", "picture", "check">>, !.cancels = 1, !.leaves = 1,
                       !.faults = 2]
Exhausted == [Two EXCEPT !.asks = <<"main", "main", "picture">>, !.faults = 3]
\* Pauses and source reads while helpers die.
Paused == [Two EXCEPT !.faults = 2, !.pauses = 2, !.cancels = 1]
Reading == [Two EXCEPT !.faults = 2, !.pauses = 1, !.sources = 1, !.leaves = 1]
\* Closing at any time.
Closing == [Two EXCEPT !.faults = 2, !.pauses = 1, !.closes = 1, !.leaves = 1]
\* Background lanes that wait for one another.
MapsAndChecks == [Two EXCEPT !.asks = <<"kept", "kept", "check", "check">>, !.cancels = 1]
Background == [Two EXCEPT !.asks = <<"index", "stored", "check", "picture">>, !.faults = 1]

All == {Dropped, Exhausted, Paused, Reading, Closing, MapsAndChecks, Background}

\* A dropped request is enough to lose the supervisor; two jobs share no count.
Leaving == {[Two EXCEPT !.leaves = 1]}
Quiet == {Two}
=============================================================================
