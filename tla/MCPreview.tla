----------------------------- MODULE MCPreview -----------------------------
\* The instances of Preview that TLC checks: each scenario bounds what happens
\* and names the setting it happens on.
EXTENDS Preview

Nothing == [gestures |-> 1, edits |-> 1, photos |-> 0, zooms |-> 0, refusals |-> 0,
            failures |-> 0, pictures |-> 0]
Plain == [tiled |-> FALSE, softer |-> FALSE, snapshots |-> FALSE, hdr |-> FALSE]
On(bounds, set) == [left |-> bounds, setting |-> set]

\* Two drags, on a photo that needs tiles and with every setting on.
Drags == On([Nothing EXCEPT !.gestures = 2, !.edits = 2],
            [Plain EXCEPT !.tiled = TRUE, !.softer = TRUE])
DenoisedDrag == On([Nothing EXCEPT !.edits = 2],
                   [Plain EXCEPT !.softer = TRUE, !.snapshots = TRUE])
\* Another photo is opened or the view is zoomed around a drag.
OpenAndZoom == On([Nothing EXCEPT !.photos = 1, !.zooms = 1], [Plain EXCEPT !.hdr = TRUE])
OpenRefused == On([Nothing EXCEPT !.photos = 1, !.edits = 2, !.refusals = 1],
                  [Plain EXCEPT !.hdr = TRUE])
ZoomTiled == On([Nothing EXCEPT !.zooms = 1], [Plain EXCEPT !.tiled = TRUE, !.softer = TRUE])
\* Renders are refused or throw, saves fail, the backend has no picture.
Faults == On([Nothing EXCEPT !.refusals = 1, !.failures = 1, !.pictures = 1], Plain)

All == {Drags, DenoisedDrag, OpenAndZoom, OpenRefused, ZoomTiled, Faults}
TwoDrags == {Drags}

\* Where ReadyIsShown is violated: a zoom step that is taken back while the
\* tiles of the other scale are drawn; a photo opened by a refused render and
\* dragged before its CPU picture is there.
ZoomedBack == {On([Nothing EXCEPT !.zooms = 2], [Plain EXCEPT !.tiled = TRUE, !.softer = TRUE])}
LateOpen == {On([Nothing EXCEPT !.edits = 2, !.photos = 1, !.zooms = 1, !.refusals = 1],
                [Plain EXCEPT !.tiled = TRUE, !.softer = TRUE])}
=============================================================================
