----------------------------- MODULE PhotoMove -----------------------------
(* What the rest of the app sees of a file command: a photo and its         *)
(* settings change place together, at once, and nobody changes the settings *)
(* while they are under way.                                                *)
CONSTANT Setting
VARIABLES place, settings, moving

vars == <<place, settings, moving>>

Init ==
    /\ place = "old"
    /\ settings \in Setting
    /\ moving = FALSE

Change ==
    /\ ~moving
    /\ settings' \in Setting
    /\ UNCHANGED <<place, moving>>

Begin ==
    /\ ~moving /\ place = "old"
    /\ moving' = TRUE
    /\ UNCHANGED <<place, settings>>

\* The command is finished, or cancelled before it began.
End ==
    /\ moving
    /\ moving' = FALSE
    /\ place' \in {"old", "new"}
    /\ UNCHANGED settings

Next == Change \/ Begin \/ End
Spec == Init /\ [][Next]_vars
=============================================================================
