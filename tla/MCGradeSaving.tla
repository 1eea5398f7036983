--------------------------- MODULE MCGradeSaving ---------------------------
\* GradeSaving on small instances: d0 is the starting grade, g1 and g2 two
\* edited ones; marks are 0 (none) or 1; a request is c1 or c2.
EXTENDS GradeSaving, TLC
CONSTANTS d0, g1, g2, c1, c2
Requests == Permutations({c1, c2})

Nothing == [edits |-> 0, reverts |-> 0, marks |-> 0, external |-> 0, unplugs |-> 0,
            faults |-> 0, crashes |-> 0]
Edited == [Nothing EXCEPT !.edits = 2]

\* Another program and a crash; failing writes and a crash; a rating, its undo
\* and reverts; an unplugged drive.
One == {[Edited EXCEPT !.external = 1],
        [Nothing EXCEPT !.edits = 1, !.external = 1, !.crashes = 1],
        [Edited EXCEPT !.faults = 1, !.crashes = 1],
        [Nothing EXCEPT !.reverts = 1, !.marks = 2, !.crashes = 1],
        [Nothing EXCEPT !.edits = 1, !.unplugs = 1]}
\* Two requests of the browser at a time.
Two == {[Nothing EXCEPT !.edits = 1, !.external = 1]}
\* A rating and its undo around a save.
Undone == {[Nothing EXCEPT !.edits = 1, !.marks = 1]}

\* A reverted edit; a crash after an edit.
Reverted == {[Nothing EXCEPT !.edits = 1, !.reverts = 1]}
Interrupted == {[Edited EXCEPT !.crashes = 1]}
=============================================================================
