-------------------------- MODULE MCRenderFlights --------------------------
\* The instances of RenderFlights that TLC checks: each scenario says what is
\* asked and what else may happen.
EXTENDS RenderFlights, TLC

CONSTANTS r1, r2, r3, local, plain, m1, sdr, hdr

MCMaskOf == (local :> m1) @@ (plain :> NoMask)

Quiet(jobs) == [jobs |-> jobs, context |-> hdr, replaces |-> 0, resets |-> 0, contexts |-> 0,
                edits |-> 0, leaves |-> 0, faults |-> 0, leaks |-> 0]
Of(kind, grade) == [kind |-> kind, grade |-> grade]
Two(a, b) == Quiet((r1 :> a) @@ (r2 :> b))
Three(a, b, c) == Quiet((r1 :> a) @@ (r2 :> b) @@ (r3 :> c))

\* One mask for several pages, one of them in a frame.
SharedMask == [Three(Of("mask", local), Of("mask", local), Of("frame", local)) EXCEPT !.leaves = 1]
MaskEdits == [Two(Of("mask", local), Of("frame", local))
                EXCEPT !.edits = 1, !.replaces = 1, !.leaves = 1, !.faults = 1]
MaskReplaced == [Three(Of("mask", local), Of("mask", local), Of("mask", local))
                   EXCEPT !.edits = 1, !.replaces = 1]
\* Whole frames and bounded ones of the same key.
Both == [Two(Of("frame", plain), Of("strips", plain))
           EXCEPT !.edits = 1, !.replaces = 1, !.contexts = 1, !.faults = 1]
Bounded == [Three(Of("frame", plain), Of("strips", plain), Of("strips", plain)) EXCEPT !.edits = 1]
\* Scopes around frames, with a mask.
Scopes == Two(Of("scope", local), Of("scope", local))
ScopesLeft == [Scopes EXCEPT !.edits = 1, !.leaves = 1]
ScopesConverted == [Scopes EXCEPT !.contexts = 1]
Instruments == [Three(Of("scope", plain), Of("scope", plain), Of("frame", plain))
             EXCEPT !.faults = 1]
\* A source level that cannot be built, for a frame that others ask for as well,
\* alone or for a scope; a source decoded again.
NoLevel == [Three(Of("frame", plain), Of("frame", plain), Of("scope", plain))
              EXCEPT !.leaks = 1, !.edits = 1]
Decoded == [Two(Of("frame", plain), Of("strips", plain)) EXCEPT !.resets = 1, !.faults = 1]

All == {SharedMask, MaskEdits, MaskReplaced, Both, Bounded, ScopesLeft, ScopesConverted,
        Instruments, NoLevel, Decoded}

\* A level that cannot be built for a frame that is asked for again.
OnlyLeaking == {[Two(Of("frame", plain), Of("frame", plain)) EXCEPT !.leaks = 1]}
OnlyDecoded == {Decoded}
=============================================================================
